---- MODULE Spec2Model ----
(***************************************************************************)
(* Light-adaptive curtain controller: the three enhanced firmwares.        *)
(*   v20  src/curtain_control/arduino_curtain_enhanced.ino  (v2.0)         *)
(*   v23  src/curtain_control/curtain_control.ino, lines 39-573   (v2.3)   *)
(*   v21  src/curtain_control/curtain_control.ino, lines 574-1079 (v2.1)   *)
(* The target is an AVR board: int is 16 bits, long and unsigned long are  *)
(* 32 bits.                                                                *)
(***************************************************************************)
EXTENDS Integers, Sequences, FiniteSets, TLC

VARIABLES
    variant,              \* which firmware is flashed: "v20", "v21" or "v23"
    pc,                   \* position of the sketch: "boot", then the steps of loop()
    now,                  \* the millisecond clock behind millis()
    currentTime,          \* loop()'s local copy of millis()
    rx,                   \* bytes waiting in the serial receive queue
    out,                  \* lines written to Serial by the last step
    eeprom,               \* non-volatile bytes 0..4
    pin,                  \* value last written to MOTOR_PIN
    dirPin,               \* value last written to MOTOR_DIR_PIN (v2.0)
    commandBuffer,
    lightReadings, lightReadIndex, lightTotal, lightAverage, currentLightRaw,
    lightMin, lightMax, isCalibrated,
    motorState, curtainPosition, motorStartTime, motorSpeed, currentMotorSpeed,
    autoMode, manualMode, manualMotorSpeed,
    manualStartTime, manualOperationActive, manualOpenOperation,
    openThreshold, closeThreshold,
    lastLightRead, lastStatusReport,
    fed,                  \* history: the raw samples of the sampling ticks, newest last
    pctResult,            \* value returned by the last getPercentageLight()
    divByZero             \* whether that call divided by zero

vars == <<variant, pc, now, currentTime, rx, out, eeprom, pin, dirPin, commandBuffer,
          lightReadings, lightReadIndex, lightTotal, lightAverage, currentLightRaw,
          lightMin, lightMax, isCalibrated,
          motorState, curtainPosition, motorStartTime, motorSpeed, currentMotorSpeed,
          autoMode, manualMode, manualMotorSpeed,
          manualStartTime, manualOperationActive, manualOpenOperation,
          openThreshold, closeThreshold, lastLightRead, lastStatusReport,
          fed, pctResult, divByZero>>

(***************************************************************************)
(* Program constants.                                                      *)
(***************************************************************************)
MOTOR_TIMEOUT == 30000
STATUS_REPORT_INTERVAL == 5000
MANUAL_OPEN_DURATION == 3000
MANUAL_CLOSE_DURATION == 6000
CALIBRATION_TIME == 10000
MAX_COMMAND_LENGTH == 64
MOTOR_SPEED_OPENING == 255
MOTOR_SPEED_CLOSING == 128
MOTOR_SPEED_STOPPED == 0
LIGHT_MIN_DEFAULT == 50
LIGHT_MAX_DEFAULT == 950
EEPROM_ADDR_MIN_LIGHT == 0
EEPROM_ADDR_MAX_LIGHT == 2
EEPROM_ADDR_CALIBRATED == 4
EEPROM_ADDR_OPEN_THRESHOLD == 0
EEPROM_ADDR_CLOSE_THRESHOLD == 2
EEPROM_ADDR_AUTO_MODE == 4
ADC_MAX == 1023

LIGHT_READ_INTERVAL(v) == IF v = "v23" THEN 200 ELSE 500
LIGHT_SAMPLES(v) == IF v = "v23" THEN 5 ELSE 10
EEPROM_MAGIC_NUMBER(v) == IF v = "v23" THEN 205 ELSE 171

(***************************************************************************)
(* Bounds of the model.                                                    *)
(***************************************************************************)
MaxTime == 40000          \* v2.0, v2.1: the clock is not advanced past this value
MaxTimeManual == 12000    \* v2.3: the same
MaxStream == 4            \* bytes received and not yet dispatched (byte-stream check)
MaxExcess == 3            \* bytes the host sends beyond the capacity of the buffer
MaxPending == 1           \* lines the host may have in flight
MaxParamTime == 5000      \* the host sends lines with numeric parameters up to this time
ClockStepMotor == 10000   \* v2.0, v2.1: the time that passes between two clock reads, or none
ClockStepManual == 3000   \* v2.3: the same
CalReads == 2             \* readings of a calibration window that differ

(***************************************************************************)
(* C++ arithmetic on the target.                                           *)
(***************************************************************************)
Abs(n) == IF n < 0 THEN -n ELSE n

\* Integer division of C++: truncation toward zero.
CDiv(a, b) ==
    IF (a >= 0) = (b > 0) THEN Abs(a) \div Abs(b) ELSE -(Abs(a) \div Abs(b))

\* Conversion to a 16-bit int.
ToInt16(n) == LET m == n % 65536 IN IF m >= 32768 THEN m - 65536 ELSE m

\* long arithmetic needs no conversion: TLC's integers are 32-bit two's complement
\* values as a long is, and TLC stops with an error where one would overflow.

\* (unsigned long)(a - b) >= k for unsigned long a, b and 0 < k: when a < b the
\* difference wraps to 2^32 - (b - a), which is >= k iff (b - a) + k <= 2^32.
UElapsedGe(a, b, k) ==
    IF a >= b THEN a - b >= k
    ELSE ((b - a) + k - 1) \div 65536 < 65536

constrain(x, lo, hi) == IF x < lo THEN lo ELSE IF x > hi THEN hi ELSE x

\* A division by zero is undefined: these are the quotients it may deliver.
DivZeroQuotients == {-1, 0, 1, 2147483647}

\* Arduino's map(): (x - in_min) * (out_max - out_min) / (in_max - in_min) + out_min
\* in long arithmetic; q is the quotient delivered when in_max = in_min.
map(x, in_min, in_max, out_min, out_max, q) ==
    IF in_max = in_min
    THEN q + out_min
    ELSE CDiv((x - in_min) * (out_max - out_min), in_max - in_min) + out_min

lowByte(w) == w % 256
highByte(w) == (w % 65536) \div 256
\* Mutant: the two bytes are taken in the other order.
word_swapped(h, l) == l * 256 + h

word(h, l) == h * 256 + l

(***************************************************************************)
(* Arduino String operations.  Strings are TLA+ strings; the character at  *)
(* position i of s is SubSeq(s, i, i).                                     *)
(***************************************************************************)
CharAt(s, i) == SubSeq(s, i, i)

isspace(c) == c \in {" ", "\t", "\n", "\r"}

LowerCase == "abcdefghijklmnopqrstuvwxyz"
UpperCase == "ABCDEFGHIJKLMNOPQRSTUVWXYZ"

toupper(c) ==
    IF \E i \in 1..26 : CharAt(LowerCase, i) = c
    THEN CharAt(UpperCase, CHOOSE i \in 1..26 : CharAt(LowerCase, i) = c)
    ELSE c

RECURSIVE toUpperCase(_)
toUpperCase(s) ==
    IF s = "" THEN "" ELSE toupper(Head(s)) \o toUpperCase(Tail(s))

RECURSIVE trimLeft(_)
trimLeft(s) ==
    IF s # "" /\ isspace(Head(s)) THEN trimLeft(Tail(s)) ELSE s

RECURSIVE trimRight(_)
trimRight(s) ==
    IF s # "" /\ isspace(CharAt(s, Len(s)))
    THEN trimRight(SubSeq(s, 1, Len(s) - 1))
    ELSE s

trim(s) == trimRight(trimLeft(s))

\* String::indexOf(ch), 0-based, -1 when absent.
indexOf(s, ch) ==
    IF \E i \in 1..Len(s) : CharAt(s, i) = ch
    THEN (CHOOSE i \in 1..Len(s) :
              CharAt(s, i) = ch /\ \A j \in 1..(i - 1) : CharAt(s, j) # ch) - 1
    ELSE -1

\* String::substring(from, to) with 0-based from and exclusive to.
substring(s, from, to) == SubSeq(s, from + 1, to)

Digits == "0123456789"
isdigit(c) == \E d \in 1..10 : CharAt(Digits, d) = c
digitValue(c) == (CHOOSE d \in 1..10 : CharAt(Digits, d) = c) - 1

RECURSIVE parseDigits(_, _)
parseDigits(s, acc) ==
    IF s # "" /\ isdigit(Head(s))
    THEN parseDigits(Tail(s), acc * 10 + digitValue(Head(s)))
    ELSE acc

\* String::toInt(), that is atol(): leading white space, an optional sign, then
\* digits up to the first other character; 0 when there is no digit.
toInt(s) ==
    LET t == trimLeft(s) IN
    IF t # "" /\ Head(t) = "-" THEN -parseDigits(Tail(t), 0)
    ELSE IF t # "" /\ Head(t) = "+" THEN parseDigits(Tail(t), 0)
    ELSE parseDigits(t, 0)

(***************************************************************************)
(* The sketch's state as one record, so that a handler is a function from  *)
(* state to state and handlers compose as the calls in the source do.      *)
(***************************************************************************)
G == [now |-> now, out |-> <<>>, eeprom |-> eeprom, pin |-> pin, dirPin |-> dirPin,
      lightReadings |-> lightReadings, lightReadIndex |-> lightReadIndex,
      lightTotal |-> lightTotal, lightAverage |-> lightAverage,
      currentLightRaw |-> currentLightRaw,
      lightMin |-> lightMin, lightMax |-> lightMax, isCalibrated |-> isCalibrated,
      motorState |-> motorState, curtainPosition |-> curtainPosition,
      motorStartTime |-> motorStartTime, motorSpeed |-> motorSpeed,
      currentMotorSpeed |-> currentMotorSpeed,
      autoMode |-> autoMode, manualMode |-> manualMode,
      manualMotorSpeed |-> manualMotorSpeed, manualStartTime |-> manualStartTime,
      manualOperationActive |-> manualOperationActive,
      manualOpenOperation |-> manualOpenOperation,
      openThreshold |-> openThreshold, closeThreshold |-> closeThreshold,
      fed |-> fed, pctResult |-> pctResult, divByZero |-> divByZero]

Commit(g) ==
    /\ now' = g.now /\ out' = g.out /\ eeprom' = g.eeprom
    /\ pin' = g.pin /\ dirPin' = g.dirPin
    /\ lightReadings' = g.lightReadings /\ lightReadIndex' = g.lightReadIndex
    /\ lightTotal' = g.lightTotal /\ lightAverage' = g.lightAverage
    /\ currentLightRaw' = g.currentLightRaw
    /\ lightMin' = g.lightMin /\ lightMax' = g.lightMax
    /\ isCalibrated' = g.isCalibrated
    /\ motorState' = g.motorState /\ curtainPosition' = g.curtainPosition
    /\ motorStartTime' = g.motorStartTime /\ motorSpeed' = g.motorSpeed
    /\ currentMotorSpeed' = g.currentMotorSpeed
    /\ autoMode' = g.autoMode /\ manualMode' = g.manualMode
    /\ manualMotorSpeed' = g.manualMotorSpeed
    /\ manualStartTime' = g.manualStartTime
    /\ manualOperationActive' = g.manualOperationActive
    /\ manualOpenOperation' = g.manualOpenOperation
    /\ openThreshold' = g.openThreshold /\ closeThreshold' = g.closeThreshold
    /\ fed' = g.fed /\ pctResult' = g.pctResult /\ divByZero' = g.divByZero

\* Serial.println(line)
Emit(g, line) == [g EXCEPT !.out = Append(@, line)]

RECURSIVE EmitAll(_, _)
EmitAll(g, lines) ==
    IF lines = <<>> THEN g ELSE EmitAll(Emit(g, Head(lines)), Tail(lines))

\* delay(ms), and the time a blocking loop takes
Delay(g, ms) == [g EXCEPT !.now = @ + ms]

YesNo(b) == IF b THEN "YES" ELSE "NO"

(***************************************************************************)
(* Light filter.                                                           *)
(***************************************************************************)
RECURSIVE SumSeq(_)
SumSeq(s) == IF s = <<>> THEN 0 ELSE Head(s) + SumSeq(Tail(s))

LastN(s, n) == IF Len(s) <= n THEN s ELSE SubSeq(s, Len(s) - n + 1, Len(s))

\* Mutant: the oldest reading is not subtracted.
readLightSensor_noSubtract(g, r) ==
    LET n  == LIGHT_SAMPLES(variant)
        i  == g.lightReadIndex + 1
        rd == [g.lightReadings EXCEPT ![i] = r]
        t2 == ToInt16(g.lightTotal + rd[i])
        av == CDiv(t2, n)
        g1 == [g EXCEPT !.lightTotal = t2,
                        !.lightReadings = rd,
                        !.currentLightRaw = IF variant = "v23" THEN r ELSE @,
                        !.lightReadIndex = (g.lightReadIndex + 1) % n,
                        !.lightAverage = av,
                        !.fed = LastN(Append(@, r), n)]
    IN  Emit(g1, "LIGHT:" \o ToString(av))

\* Mutant: the average is rounded to the nearest integer.
readLightSensor_rounds(g, r) ==
    LET n  == LIGHT_SAMPLES(variant)
        i  == g.lightReadIndex + 1
        t1 == ToInt16(g.lightTotal - g.lightReadings[i])
        rd == [g.lightReadings EXCEPT ![i] = r]
        t2 == ToInt16(t1 + rd[i])
        av == CDiv(2 * t2 + n, 2 * n)
        g1 == [g EXCEPT !.lightTotal = t2,
                        !.lightReadings = rd,
                        !.currentLightRaw = IF variant = "v23" THEN r ELSE @,
                        !.lightReadIndex = (g.lightReadIndex + 1) % n,
                        !.lightAverage = av,
                        !.fed = LastN(Append(@, r), n)]
    IN  Emit(g1, "LIGHT:" \o ToString(av))

\* readLightSensor(); r is the value analogRead() returns.
readLightSensor(g, r) ==
    LET n  == LIGHT_SAMPLES(variant)
        i  == g.lightReadIndex + 1
        t1 == ToInt16(g.lightTotal - g.lightReadings[i])
        rd == [g.lightReadings EXCEPT ![i] = r]
        t2 == ToInt16(t1 + rd[i])
        av == CDiv(t2, n)
        g1 == [g EXCEPT !.lightTotal = t2,
                        !.lightReadings = rd,
                        !.currentLightRaw = IF variant = "v23" THEN r ELSE @,
                        !.lightReadIndex = (g.lightReadIndex + 1) % n,
                        !.lightAverage = av,
                        !.fed = LastN(Append(@, r), n)]
    IN  Emit(g1, "LIGHT:" \o ToString(av))

\* getPercentageLight(); q is the quotient a division by zero delivers.
\* The result is left in pctResult.
getPercentageLight(g, q) ==
    IF ~g.isCalibrated
    THEN [g EXCEPT !.pctResult = ToInt16(map(g.lightAverage, 0, ADC_MAX, 0, 100, q)),
                   !.divByZero = FALSE]
    ELSE LET percentage == ToInt16(map(g.lightAverage, g.lightMin, g.lightMax, 0, 100, q))
         IN  [g EXCEPT !.pctResult = constrain(percentage, 0, 100),
                       !.divByZero = (g.lightMax = g.lightMin)]

(***************************************************************************)
(* Persistence of the calibration (v2.0 and v2.1: the same code).          *)
(***************************************************************************)
\* Mutant: every byte is written one address further, the last one at 0.
EEPROM_write_shifted(g, addr, val) == [g EXCEPT !.eeprom[(addr + 1) % 5] = val % 256]

EEPROM_write(g, addr, val) == [g EXCEPT !.eeprom[addr] = val % 256]

\* Mutant: the save writes the two fields and not the magic byte.
saveCalibration_noMagic(g) ==
    LET g2 == EEPROM_write(g, EEPROM_ADDR_MIN_LIGHT, lowByte(g.lightMin))
        g3 == EEPROM_write(g2, EEPROM_ADDR_MIN_LIGHT + 1, highByte(g.lightMin))
        g4 == EEPROM_write(g3, EEPROM_ADDR_MAX_LIGHT, lowByte(g.lightMax))
        g5 == EEPROM_write(g4, EEPROM_ADDR_MAX_LIGHT + 1, highByte(g.lightMax))
    IN  Emit([g5 EXCEPT !.isCalibrated = TRUE], "CALIBRATION:SAVED")

saveCalibration(g) ==
    LET g1 == EEPROM_write(g, EEPROM_ADDR_CALIBRATED, EEPROM_MAGIC_NUMBER(variant))
        g2 == EEPROM_write(g1, EEPROM_ADDR_MIN_LIGHT, lowByte(g.lightMin))
        g3 == EEPROM_write(g2, EEPROM_ADDR_MIN_LIGHT + 1, highByte(g.lightMin))
        g4 == EEPROM_write(g3, EEPROM_ADDR_MAX_LIGHT, lowByte(g.lightMax))
        g5 == EEPROM_write(g4, EEPROM_ADDR_MAX_LIGHT + 1, highByte(g.lightMax))
    IN  Emit([g5 EXCEPT !.isCalibrated = TRUE], "CALIBRATION:SAVED")

\* Mutant: a missing record is reported as an error.
loadCalibration_missIsError(g) ==
    LET magic == g.eeprom[EEPROM_ADDR_CALIBRATED] IN
    IF magic = EEPROM_MAGIC_NUMBER(variant)
    THEN Emit([g EXCEPT
                 !.lightMin = ToInt16(word(g.eeprom[EEPROM_ADDR_MIN_LIGHT + 1],
                                           g.eeprom[EEPROM_ADDR_MIN_LIGHT])),
                 !.lightMax = ToInt16(word(g.eeprom[EEPROM_ADDR_MAX_LIGHT + 1],
                                           g.eeprom[EEPROM_ADDR_MAX_LIGHT])),
                 !.isCalibrated = TRUE],
              "CALIBRATION:LOADED")
    ELSE [Emit(g, "ERROR:CALIBRATION_NOT_FOUND") EXCEPT !.isCalibrated = FALSE]

loadCalibration(g) ==
    LET magic == g.eeprom[EEPROM_ADDR_CALIBRATED] IN
    IF magic = EEPROM_MAGIC_NUMBER(variant)
    THEN Emit([g EXCEPT
                 !.lightMin = ToInt16(word(g.eeprom[EEPROM_ADDR_MIN_LIGHT + 1],
                                           g.eeprom[EEPROM_ADDR_MIN_LIGHT])),
                 !.lightMax = ToInt16(word(g.eeprom[EEPROM_ADDR_MAX_LIGHT + 1],
                                           g.eeprom[EEPROM_ADDR_MAX_LIGHT])),
                 !.isCalibrated = TRUE],
              "CALIBRATION:LOADED")
    ELSE [Emit(g, "CALIBRATION:NOT_FOUND") EXCEPT !.isCalibrated = FALSE]

\* Mutant: the stored magic byte is left in place.
resetCalibration_keepsRecord(g) ==
    Emit([g EXCEPT !.lightMin = LIGHT_MIN_DEFAULT,
                   !.lightMax = LIGHT_MAX_DEFAULT,
                   !.isCalibrated = FALSE],
         "CALIBRATION:RESET")

resetCalibration(g) ==
    LET g1 == [g EXCEPT !.lightMin = LIGHT_MIN_DEFAULT,
                        !.lightMax = LIGHT_MAX_DEFAULT,
                        !.isCalibrated = FALSE]
    IN  Emit(EEPROM_write(g1, EEPROM_ADDR_CALIBRATED, 0), "CALIBRATION:RESET")

\* One pass of the calibration loop's body with the reading r.
\* Mutant: the calibration loop ends a move that is under way.
calibrationSample_stopsMotor(g, r) ==
    LET g1 == IF r < g.lightMin
              THEN Emit([g EXCEPT !.lightMin = r],
                        "CALIBRATION:MIN_UPDATE:" \o ToString(r))
              ELSE g
        g2 == IF r > g1.lightMax
              THEN Emit([g1 EXCEPT !.lightMax = r], "CALIBRATION:MAX_UPDATE:" \o ToString(r))
              ELSE g1
    IN  IF g2.motorState # "Stopped"
        THEN Emit([g2 EXCEPT !.motorState = "Stopped", !.pin = 0], "ERROR:MOTOR_TIMEOUT")
        ELSE g2

calibrationSample(g, r) ==
    LET g1 == IF r < g.lightMin
              THEN Emit([g EXCEPT !.lightMin = r],
                        "CALIBRATION:MIN_UPDATE:" \o ToString(r))
              ELSE g
    IN  IF r > g1.lightMax
        THEN Emit([g1 EXCEPT !.lightMax = r], "CALIBRATION:MAX_UPDATE:" \o ToString(r))
        ELSE g1

RECURSIVE calibrationLoop(_, _)
calibrationLoop(g, rs) ==
    IF rs = <<>> THEN g ELSE calibrationLoop(calibrationSample(g, Head(rs)), Tail(rs))

\* startCalibration(); rs are the readings of the 10 s window, which blocks the
\* sketch for CALIBRATION_TIME.
\* Mutant: the bounds are saved as observed, without the margin of 10.
startCalibration_noMargin(g, rs) ==
    LET g1 == EmitAll(g, <<"CALIBRATION:STARTED",
                           "STATUS:Move sensor between darkest and brightest positions">>)
        g2 == [g1 EXCEPT !.lightMin = 1023, !.lightMax = 0]
        g3 == Delay(calibrationLoop(g2, rs), CALIBRATION_TIME)
        g5 == saveCalibration(g3)
    IN  Emit(g5, "CALIBRATION:COMPLETE,MIN:" \o ToString(g5.lightMin)
                 \o ",MAX:" \o ToString(g5.lightMax))

startCalibration(g, rs) ==
    LET g1 == EmitAll(g, <<"CALIBRATION:STARTED",
                           "STATUS:Move sensor between darkest and brightest positions">>)
        g2 == [g1 EXCEPT !.lightMin = 1023, !.lightMax = 0]
        g3 == Delay(calibrationLoop(g2, rs), CALIBRATION_TIME)
        g4 == [g3 EXCEPT !.lightMin = IF 0 > g3.lightMin - 10 THEN 0 ELSE g3.lightMin - 10,
                         !.lightMax = IF 1023 < g3.lightMax + 10 THEN 1023
                                      ELSE g3.lightMax + 10]
        g5 == saveCalibration(g4)
    IN  Emit(g5, "CALIBRATION:COMPLETE,MIN:" \o ToString(g5.lightMin)
                 \o ",MAX:" \o ToString(g5.lightMax))

CalibrationLine(g) ==
    "CALIBRATION:" \o YesNo(g.isCalibrated) \o ",MIN:" \o ToString(g.lightMin)
    \o ",MAX:" \o ToString(g.lightMax)

(***************************************************************************)
(* Motor controller, v2.0 (direction pin, one speed).                      *)
(***************************************************************************)
\* d is the time that has passed when the handler reads millis().
openCurtain_v20(g, d) ==
    IF g.curtainPosition = "Open"
    THEN Emit(g, "STATUS:Already open")
    ELSE EmitAll([g EXCEPT !.dirPin = 1,
                           !.pin = g.motorSpeed,
                           !.motorState = "Opening",
                           !.now = g.now + d,
                           !.motorStartTime = g.now + d,
                           !.curtainPosition = "Partial"],
                 <<"MOTOR:OPENING", "POSITION:OPENING">>)

closeCurtain_v20(g, d) ==
    IF g.curtainPosition = "Closed"
    THEN Emit(g, "STATUS:Already closed")
    ELSE EmitAll([g EXCEPT !.dirPin = 0,
                           !.pin = g.motorSpeed,
                           !.motorState = "Closing",
                           !.now = g.now + d,
                           !.motorStartTime = g.now + d,
                           !.curtainPosition = "Partial"],
                 <<"MOTOR:CLOSING", "POSITION:CLOSING">>)

\* The state is overwritten before it is tested.
stopMotor_v20(g) ==
    LET g1 == Emit([g EXCEPT !.pin = 0, !.motorState = "Stopped"], "MOTOR:STOPPED")
    IN  IF g1.motorState = "Opening"
        THEN Emit([g1 EXCEPT !.curtainPosition = "Open"], "POSITION:OPEN")
        ELSE IF g1.motorState = "Closing"
        THEN Emit([g1 EXCEPT !.curtainPosition = "Closed"], "POSITION:CLOSED")
        ELSE g1

setMotorSpeed_v20(g, speed) ==
    LET g1 == [g EXCEPT !.motorSpeed = constrain(speed, 0, 255)]
        g2 == Emit(g1, "MOTOR_SPEED:" \o ToString(g1.motorSpeed))
    IN  IF g2.motorState # "Stopped" THEN [g2 EXCEPT !.pin = g2.motorSpeed] ELSE g2

(***************************************************************************)
(* Motor controller, v2.1 (spinning motor, two speeds).                    *)
(***************************************************************************)
\* Mutant: the position is not set to Partial when the move starts.
openCurtain_v21_keepsPosition(g, d) ==
    IF g.curtainPosition = "Open"
    THEN Emit(g, "STATUS:Already open")
    ELSE EmitAll([g EXCEPT !.pin = MOTOR_SPEED_OPENING,
                           !.currentMotorSpeed = MOTOR_SPEED_OPENING,
                           !.motorState = "Opening",
                           !.now = g.now + d,
                           !.motorStartTime = g.now + d],
                 <<"MOTOR:OPENING at speed " \o ToString(MOTOR_SPEED_OPENING),
                   "POSITION:OPENING">>)

\* Mutant: the test of the position is missing.
closeCurtain_v21_noGuard(g, d) ==
    EmitAll([g EXCEPT !.pin = MOTOR_SPEED_CLOSING,
                      !.currentMotorSpeed = MOTOR_SPEED_CLOSING,
                      !.motorState = "Closing",
                      !.now = g.now + d,
                      !.motorStartTime = g.now + d,
                      !.curtainPosition = "Partial"],
            <<"MOTOR:CLOSING at speed " \o ToString(MOTOR_SPEED_CLOSING),
              "POSITION:CLOSING">>)

openCurtain_v21(g, d) ==
    IF g.curtainPosition = "Open"
    THEN Emit(g, "STATUS:Already open")
    ELSE EmitAll([g EXCEPT !.pin = MOTOR_SPEED_OPENING,
                           !.currentMotorSpeed = MOTOR_SPEED_OPENING,
                           !.motorState = "Opening",
                           !.now = g.now + d,
                           !.motorStartTime = g.now + d,
                           !.curtainPosition = "Partial"],
                 <<"MOTOR:OPENING at speed " \o ToString(MOTOR_SPEED_OPENING),
                   "POSITION:OPENING">>)

closeCurtain_v21(g, d) ==
    IF g.curtainPosition = "Closed"
    THEN Emit(g, "STATUS:Already closed")
    ELSE EmitAll([g EXCEPT !.pin = MOTOR_SPEED_CLOSING,
                           !.currentMotorSpeed = MOTOR_SPEED_CLOSING,
                           !.motorState = "Closing",
                           !.now = g.now + d,
                           !.motorStartTime = g.now + d,
                           !.curtainPosition = "Partial"],
                 <<"MOTOR:CLOSING at speed " \o ToString(MOTOR_SPEED_CLOSING),
                   "POSITION:CLOSING">>)

stopMotor_v21(g) ==
    LET previousState == g.motorState
        g1 == Emit([g EXCEPT !.pin = 0,
                             !.currentMotorSpeed = MOTOR_SPEED_STOPPED,
                             !.motorState = "Stopped"],
                   "MOTOR:STOPPED")
    IN  IF previousState = "Opening"
        THEN Emit([g1 EXCEPT !.curtainPosition = "Open"], "POSITION:OPEN")
        ELSE IF previousState = "Closing"
        THEN Emit([g1 EXCEPT !.curtainPosition = "Closed"], "POSITION:CLOSED")
        ELSE g1

\* Mutant: with the motor stopped the speed is still written to the pin.
setMotorSpeed_v21_writesWhenStopped(g, speedPercent) ==
    LET pwmValue == ToInt16(map(constrain(speedPercent, 0, 100), 0, 100, 0, 255, 0))
        g1 == Emit(g, "MOTOR_SPEED_SET:" \o ToString(speedPercent) \o "% (PWM:"
                      \o ToString(pwmValue) \o ")")
    IN  IF g1.motorState = "Closing"
        THEN [g1 EXCEPT !.currentMotorSpeed = CDiv(pwmValue, 2), !.pin = CDiv(pwmValue, 2)]
        ELSE [g1 EXCEPT !.currentMotorSpeed = pwmValue, !.pin = pwmValue]

setMotorSpeed_v21(g, speedPercent) ==
    LET pwmValue == ToInt16(map(constrain(speedPercent, 0, 100), 0, 100, 0, 255, 0))
        g1 == Emit(g, "MOTOR_SPEED_SET:" \o ToString(speedPercent) \o "% (PWM:"
                      \o ToString(pwmValue) \o ")")
    IN  IF g1.motorState = "Opening"
        THEN [g1 EXCEPT !.currentMotorSpeed = pwmValue, !.pin = pwmValue]
        ELSE IF g1.motorState = "Closing"
        THEN [g1 EXCEPT !.currentMotorSpeed = CDiv(pwmValue, 2), !.pin = CDiv(pwmValue, 2)]
        ELSE Emit(g1, "STATUS:Motor stopped - use OPEN/CLOSE first")

\* testMotor() of v2.1: two speeds for 2 s each, then the pin is set to 0.
testMotor_v21(g) ==
    LET g1 == EmitAll(g, <<"TEST:MOTOR_START", "TEST:Testing fast speed (opening)...">>)
        g2 == Delay([g1 EXCEPT !.pin = MOTOR_SPEED_OPENING], 2000)
        g3 == Emit(g2, "TEST:Testing slow speed (closing)...")
        g4 == Delay([g3 EXCEPT !.pin = MOTOR_SPEED_CLOSING], 2000)
        g5 == Emit(g4, "TEST:Stopping motor...")
    IN  Emit([g5 EXCEPT !.pin = 0], "TEST:MOTOR_COMPLETE")

MotorName(m) ==
    IF m = "Stopped" THEN "STOPPED" ELSE IF m = "Opening" THEN "OPENING" ELSE "CLOSING"

PositionName(p) ==
    IF p = "Unknown" THEN "UNKNOWN" ELSE IF p = "Open" THEN "OPEN"
    ELSE IF p = "Closed" THEN "CLOSED" ELSE "PARTIAL"

\* sendStatusReport() of v2.0; q as in getPercentageLight.
sendStatusReport_v20(g, q) ==
    LET g1 == getPercentageLight(g, q)
    IN  EmitAll(g1, <<"STATUS:REPORT_START",
                      "LIGHT:" \o ToString(g1.lightAverage),
                      "LIGHT_PERCENT:" \o ToString(g1.pctResult),
                      "MOTOR:" \o MotorName(g1.motorState),
                      "POSITION:" \o PositionName(g1.curtainPosition),
                      CalibrationLine(g1),
                      "UPTIME:" \o ToString(g1.now),
                      "STATUS:REPORT_END">>)

\* sendStatusReport() of v2.1; r is the value analogRead() returns.
sendStatusReport_v21(g, q, r) ==
    LET g1 == getPercentageLight(g, q)
    IN  EmitAll(g1, <<"STATUS:REPORT_START",
                      "LIGHT:" \o ToString(g1.lightAverage),
                      "LIGHT_PERCENT:" \o ToString(g1.pctResult),
                      "LIGHT_RAW:" \o ToString(r),
                      "MOTOR:" \o MotorName(g1.motorState),
                      "MOTOR_SPEED:" \o ToString(g1.currentMotorSpeed),
                      "POSITION:" \o PositionName(g1.curtainPosition),
                      CalibrationLine(g1),
                      "UPTIME:" \o ToString(g1.now),
                      "STATUS:REPORT_END">>)

(***************************************************************************)
(* v2.3: auto/manual firmware (light-driven speed, timed manual moves).    *)
(***************************************************************************)
ModeName(g) == IF g.autoMode THEN "AUTO" ELSE "MANUAL"

updateMotorFromLight(g) ==
    LET motorSpeedL == IF g.lightAverage <= g.openThreshold THEN 80
                       ELSE IF g.lightAverage >= g.closeThreshold THEN 180
                       ELSE 120
        label == IF g.lightAverage <= g.openThreshold THEN "AUTO DARK MODE - "
                 ELSE IF g.lightAverage >= g.closeThreshold THEN "AUTO BRIGHT MODE - "
                 ELSE "AUTO MEDIUM MODE - "
    IN  Emit([g EXCEPT !.pin = motorSpeedL, !.currentMotorSpeed = motorSpeedL],
             label \o "LDR: " \o ToString(g.lightAverage) \o " | Motor Speed: "
             \o ToString(motorSpeedL))

stopMotor_v23(g) ==
    Emit([g EXCEPT !.pin = 0,
                   !.currentMotorSpeed = 0,
                   !.manualMotorSpeed = 0,
                   !.manualOperationActive = FALSE],
         "MOTOR:STOPPED")

\* d is the time that has passed when the handler reads millis().
\* Mutant: a close is ended after the duration of an open.
updateManualMode_openDurationOnly(g, d) ==
    LET g1 == Delay(g, d)
    IN  IF g1.manualOperationActive
           /\ UElapsedGe(g1.now, g1.manualStartTime, MANUAL_OPEN_DURATION)
        THEN Emit([stopMotor_v23(g1) EXCEPT !.manualOperationActive = FALSE],
                  "MANUAL " \o (IF g1.manualOpenOperation THEN "OPEN" ELSE "CLOSE")
                  \o " COMPLETED")
        ELSE g1

updateManualMode(g, d) ==
    LET g1 == Delay(g, d)
        duration == IF g1.manualOpenOperation THEN MANUAL_OPEN_DURATION
                    ELSE MANUAL_CLOSE_DURATION
    IN  IF g1.manualOperationActive /\ UElapsedGe(g1.now, g1.manualStartTime, duration)
        THEN Emit([stopMotor_v23(g1) EXCEPT !.manualOperationActive = FALSE],
                  "MANUAL " \o (IF g1.manualOpenOperation THEN "OPEN" ELSE "CLOSE")
                  \o " COMPLETED")
        ELSE g1

startManualOpen(g, d) ==
    IF ~g.manualMode
    THEN Emit(g, "ERROR:NOT_IN_MANUAL_MODE")
    ELSE Emit([g EXCEPT !.now = g.now + d,
                        !.manualStartTime = g.now + d,
                        !.manualOperationActive = TRUE,
                        !.manualOpenOperation = TRUE,
                        !.manualMotorSpeed = 200,
                        !.pin = 200,
                        !.currentMotorSpeed = 200],
              "MANUAL_OPEN_STARTED:" \o ToString(MANUAL_OPEN_DURATION) \o "ms")

startManualClose(g, d) ==
    IF ~g.manualMode
    THEN Emit(g, "ERROR:NOT_IN_MANUAL_MODE")
    ELSE Emit([g EXCEPT !.now = g.now + d,
                        !.manualStartTime = g.now + d,
                        !.manualOperationActive = TRUE,
                        !.manualOpenOperation = FALSE,
                        !.manualMotorSpeed = 150,
                        !.pin = 150,
                        !.currentMotorSpeed = 150],
              "MANUAL_CLOSE_STARTED:" \o ToString(MANUAL_CLOSE_DURATION) \o "ms")

\* Mutant: the test of the mode is missing.
setMotorSpeedManual_noGuard(g, speed) ==
    LET s == constrain(speed, 0, 255)
    IN  Emit([g EXCEPT !.manualMotorSpeed = s, !.pin = s, !.currentMotorSpeed = s],
             "MOTOR_SPEED:" \o ToString(s))

setMotorSpeedManual(g, speed) ==
    IF ~g.manualMode
    THEN Emit(g, "ERROR:NOT_IN_MANUAL_MODE")
    ELSE LET s == constrain(speed, 0, 255)
         IN  Emit([g EXCEPT !.manualMotorSpeed = s, !.pin = s, !.currentMotorSpeed = s],
                  "MOTOR_SPEED:" \o ToString(s))

saveSettings(g) ==
    LET g1 == EEPROM_write(g, EEPROM_ADDR_AUTO_MODE, EEPROM_MAGIC_NUMBER(variant))
        g2 == EEPROM_write(g1, EEPROM_ADDR_OPEN_THRESHOLD, lowByte(g.openThreshold))
        g3 == EEPROM_write(g2, EEPROM_ADDR_OPEN_THRESHOLD + 1, highByte(g.openThreshold))
        g4 == EEPROM_write(g3, EEPROM_ADDR_CLOSE_THRESHOLD, lowByte(g.closeThreshold))
        g5 == EEPROM_write(g4, EEPROM_ADDR_CLOSE_THRESHOLD + 1, highByte(g.closeThreshold))
    IN  Emit(g5, "SETTINGS:SAVED")

loadSettings(g) ==
    LET magic == g.eeprom[EEPROM_ADDR_AUTO_MODE] IN
    IF magic = EEPROM_MAGIC_NUMBER(variant)
    THEN Emit([g EXCEPT
                 !.openThreshold = ToInt16(word(g.eeprom[EEPROM_ADDR_OPEN_THRESHOLD + 1],
                                                g.eeprom[EEPROM_ADDR_OPEN_THRESHOLD])),
                 !.closeThreshold = ToInt16(word(g.eeprom[EEPROM_ADDR_CLOSE_THRESHOLD + 1],
                                                 g.eeprom[EEPROM_ADDR_CLOSE_THRESHOLD]))],
              "SETTINGS:LOADED")
    ELSE Emit(g, "SETTINGS:NOT_FOUND_USING_DEFAULTS")

\* Mutant: the reset also clears the four field bytes.
resetSettings_clearsFields(g) ==
    LET g1 == [g EXCEPT !.openThreshold = 300,
                        !.closeThreshold = 700,
                        !.autoMode = TRUE,
                        !.manualMode = FALSE]
        g2 == EEPROM_write(EEPROM_write(EEPROM_write(EEPROM_write(g1,
                  EEPROM_ADDR_OPEN_THRESHOLD, 0), EEPROM_ADDR_OPEN_THRESHOLD + 1, 0),
                  EEPROM_ADDR_CLOSE_THRESHOLD, 0), EEPROM_ADDR_CLOSE_THRESHOLD + 1, 0)
    IN  Emit(EEPROM_write(g2, EEPROM_ADDR_AUTO_MODE, 0), "SETTINGS:RESET")

resetSettings(g) ==
    LET g1 == [g EXCEPT !.openThreshold = 300,
                        !.closeThreshold = 700,
                        !.autoMode = TRUE,
                        !.manualMode = FALSE]
    IN  Emit(EEPROM_write(g1, EEPROM_ADDR_AUTO_MODE, 0), "SETTINGS:RESET")

\* Mutant: the mode is switched without stopping the motor.
setAutoMode_keepsMotor(g, enable) ==
    LET g1 == [g EXCEPT !.autoMode = enable, !.manualMode = ~enable]
        g2 == saveSettings(g1)
    IN  EmitAll(g2, <<"MODE:" \o ModeName(g2),
                      "MANUAL_MODE:" \o (IF g2.manualMode THEN "TRUE" ELSE "FALSE")>>)

setAutoMode(g, enable) ==
    LET g1 == [g EXCEPT !.autoMode = enable, !.manualMode = ~enable]
        g2 == saveSettings(stopMotor_v23(g1))
    IN  EmitAll(g2, <<"MODE:" \o ModeName(g2),
                      "MANUAL_MODE:" \o (IF g2.manualMode THEN "TRUE" ELSE "FALSE")>>)

\* Mutant: the new threshold is stored as received.
setOpenThreshold_unclamped(g, newThreshold) ==
    LET g1 == saveSettings([g EXCEPT !.openThreshold = newThreshold])
    IN  Emit(g1, "OPEN_THRESHOLD:" \o ToString(g1.openThreshold))

setOpenThreshold(g, newThreshold) ==
    LET g1 == saveSettings([g EXCEPT !.openThreshold = constrain(newThreshold, 0, 1023)])
    IN  Emit(g1, "OPEN_THRESHOLD:" \o ToString(g1.openThreshold))

\* Mutant: the new threshold is kept in memory only.
setCloseThreshold_notSaved(g, newThreshold) ==
    LET g1 == [g EXCEPT !.closeThreshold = constrain(newThreshold, 0, 1023)]
    IN  Emit(g1, "CLOSE_THRESHOLD:" \o ToString(g1.closeThreshold))

setCloseThreshold(g, newThreshold) ==
    LET g1 == saveSettings([g EXCEPT !.closeThreshold = constrain(newThreshold, 0, 1023)])
    IN  Emit(g1, "CLOSE_THRESHOLD:" \o ToString(g1.closeThreshold))

sendStatusReport_v23(g) ==
    EmitAll(g, <<"STATUS:REPORT_START",
                 "LIGHT:" \o ToString(g.lightAverage),
                 "LIGHT_RAW:" \o ToString(g.currentLightRaw),
                 "OPEN_THRESHOLD:" \o ToString(g.openThreshold),
                 "CLOSE_THRESHOLD:" \o ToString(g.closeThreshold),
                 "MOTOR_SPEED:" \o ToString(g.currentMotorSpeed),
                 "MODE:" \o ModeName(g),
                 "UPTIME:" \o ToString(g.now),
                 "STATUS:REPORT_END">>)

\* testMotor() of v2.3: four speeds for 2 s each, the mode switched to manual
\* meanwhile and restored at the end.
testMotor_v23(g) ==
    LET wasAuto == g.autoMode
        g1 == Emit(g, "TEST:MOTOR_START")
        g2 == [g1 EXCEPT !.autoMode = FALSE, !.manualMode = TRUE]
        g3 == Delay([Emit(g2, "TEST:Testing 25% speed...") EXCEPT !.pin = 64], 2000)
        g4 == Delay([Emit(g3, "TEST:Testing 50% speed...") EXCEPT !.pin = 128], 2000)
        g5 == Delay([Emit(g4, "TEST:Testing 75% speed...") EXCEPT !.pin = 192], 2000)
        g6 == Delay([Emit(g5, "TEST:Testing 100% speed...") EXCEPT !.pin = 255], 2000)
        g7 == [Emit(g6, "TEST:Stopping motor...") EXCEPT !.pin = 0]
        g8 == [g7 EXCEPT !.autoMode = wasAuto, !.manualMode = ~wasAuto]
    IN  EmitAll(g8, <<"TEST:MOTOR_COMPLETE", "TEST:Restored to " \o ModeName(g8)>>)

(***************************************************************************)
(* Command interpreter.                                                    *)
(***************************************************************************)
\* Mutant: the line is split at its first colon wherever that is.
ParseCommand_anyColon(command) ==
    LET c == toUpperCase(trim(command))
        colonPos == indexOf(c, ":")
    IN  [cmd    |-> IF colonPos >= 0 THEN substring(c, 0, colonPos) ELSE c,
         params |-> IF colonPos >= 0 THEN substring(c, colonPos + 1, Len(c)) ELSE ""]

\* The head of processCommand(): trim, upper-case, split at the first colon when
\* it is not the first character.
ParseCommand(command) ==
    LET c == toUpperCase(trim(command))
        colonPos == indexOf(c, ":")
    IN  [cmd    |-> IF colonPos > 0 THEN substring(c, 0, colonPos) ELSE c,
         params |-> IF colonPos > 0 THEN substring(c, colonPos + 1, Len(c)) ELSE ""]

\* The inputs a handler takes from its environment: e.d is the time that has
\* passed when it reads millis(), e.rs the values its analogRead() calls return,
\* e.q the quotient a division by zero delivers.
processCommand_v20(g, command, e) ==
    LET p == ParseCommand(command)
        cmd == p.cmd
        params == p.params
    IN  IF cmd = "OPEN_CURTAIN" \/ cmd = "OPEN" THEN openCurtain_v20(g, e.d)
        ELSE IF cmd = "CLOSE_CURTAIN" \/ cmd = "CLOSE" THEN closeCurtain_v20(g, e.d)
        ELSE IF cmd = "STOP_MOTOR" \/ cmd = "STOP" THEN stopMotor_v20(g)
        ELSE IF cmd = "READ_LIGHT"
        THEN LET g1 == getPercentageLight(g, e.q)
             IN  EmitAll(g1, <<"LIGHT:" \o ToString(g1.lightAverage),
                               "LIGHT_PERCENT:" \o ToString(g1.pctResult)>>)
        ELSE IF cmd = "GET_STATUS" THEN sendStatusReport_v20(g, e.q)
        ELSE IF cmd = "CALIBRATE_LIGHT" \/ cmd = "CALIBRATE" THEN startCalibration(g, e.rs)
        ELSE IF cmd = "RESET_CALIBRATION" THEN resetCalibration(g)
        ELSE IF cmd = "SET_SPEED"
        THEN IF Len(params) > 0
             THEN LET speed == ToInt16(toInt(params))
                  IN  setMotorSpeed_v20(g, ToInt16(map(speed, 0, 100, 0, 255, 0)))
             ELSE Emit(g, "ERROR:MISSING_SPEED_PARAMETER")
        ELSE IF cmd = "PING" THEN Emit(g, "PONG")
        ELSE IF cmd = "VERSION" THEN Emit(g, "VERSION:2.0")
        ELSE Emit(g, "ERROR:UNKNOWN_COMMAND:" \o cmd)

processCommand_v21(g, command, e) ==
    LET p == ParseCommand(command)
        cmd == p.cmd
        params == p.params
    IN  IF cmd = "OPEN_CURTAIN" \/ cmd = "OPEN" THEN openCurtain_v21(g, e.d)
        ELSE IF cmd = "CLOSE_CURTAIN" \/ cmd = "CLOSE" THEN closeCurtain_v21(g, e.d)
        ELSE IF cmd = "STOP_MOTOR" \/ cmd = "STOP" THEN stopMotor_v21(g)
        ELSE IF cmd = "READ_LIGHT"
        THEN LET g1 == getPercentageLight(g, e.q)
             IN  EmitAll(g1, <<"LIGHT:" \o ToString(g1.lightAverage),
                               "LIGHT_PERCENT:" \o ToString(g1.pctResult),
                               "LIGHT_RAW:" \o ToString(Head(e.rs))>>)
        ELSE IF cmd = "GET_STATUS" THEN sendStatusReport_v21(g, e.q, Head(e.rs))
        ELSE IF cmd = "CALIBRATE_LIGHT" \/ cmd = "CALIBRATE" THEN startCalibration(g, e.rs)
        ELSE IF cmd = "RESET_CALIBRATION" THEN resetCalibration(g)
        ELSE IF cmd = "SET_SPEED"
        THEN IF Len(params) > 0
             THEN setMotorSpeed_v21(g, ToInt16(toInt(params)))
             ELSE Emit(g, "ERROR:MISSING_SPEED_PARAMETER")
        ELSE IF cmd = "TEST_MOTOR" THEN testMotor_v21(g)
        ELSE IF cmd = "PING" THEN Emit(g, "PONG")
        ELSE IF cmd = "VERSION" THEN Emit(g, "VERSION:2.1-SPINNING")
        ELSE Emit(g, "ERROR:UNKNOWN_COMMAND:" \o cmd)

processCommand_v23(g, command, e) ==
    LET p == ParseCommand(command)
        cmd == p.cmd
        params == p.params
    IN  IF cmd = "AUTO" \/ cmd = "AUTO_MODE" THEN setAutoMode(g, TRUE)
        ELSE IF cmd = "MANUAL" \/ cmd = "MANUAL_MODE" THEN setAutoMode(g, FALSE)
        ELSE IF cmd = "SET_SPEED"
        THEN IF Len(params) > 0
             THEN LET speed == ToInt16(toInt(params))
                  IN  setMotorSpeedManual(g,
                          IF speed <= 100 THEN ToInt16(map(speed, 0, 100, 0, 255, 0))
                          ELSE speed)
             ELSE Emit(g, "ERROR:MISSING_SPEED_PARAMETER")
        ELSE IF cmd = "STOP_MOTOR" \/ cmd = "STOP" THEN stopMotor_v23(g)
        ELSE IF cmd = "SET_OPEN_THRESHOLD"
        THEN IF Len(params) > 0
             THEN setOpenThreshold(g, ToInt16(toInt(params)))
             ELSE Emit(g, "ERROR:MISSING_THRESHOLD_PARAMETER")
        ELSE IF cmd = "SET_CLOSE_THRESHOLD"
        THEN IF Len(params) > 0
             THEN setCloseThreshold(g, ToInt16(toInt(params)))
             ELSE Emit(g, "ERROR:MISSING_THRESHOLD_PARAMETER")
        ELSE IF cmd = "OPEN_CURTAIN"
        THEN IF g.manualMode THEN startManualOpen(g, e.d)
             ELSE Emit(g, "ERROR:NOT_IN_MANUAL_MODE")
        ELSE IF cmd = "CLOSE_CURTAIN"
        THEN IF g.manualMode THEN startManualClose(g, e.d)
             ELSE Emit(g, "ERROR:NOT_IN_MANUAL_MODE")
        ELSE IF cmd = "READ_LIGHT"
        THEN EmitAll(g, <<"LIGHT:" \o ToString(g.lightAverage),
                          "LIGHT_RAW:" \o ToString(g.currentLightRaw)>>)
        ELSE IF cmd = "GET_STATUS" THEN sendStatusReport_v23(g)
        ELSE IF cmd = "RESET_SETTINGS" THEN resetSettings(g)
        ELSE IF cmd = "TEST_MOTOR" THEN testMotor_v23(g)
        ELSE IF cmd = "PING" THEN Emit(g, "PONG")
        ELSE IF cmd = "VERSION" THEN Emit(g, "VERSION:2.3-Enhanced")
        ELSE Emit(g, "ERROR:UNKNOWN_COMMAND:" \o cmd)

\* Mutant: a missing SET_SPEED parameter is read as 0.
processCommand_defaultsParameter(g, command, e) ==
    LET p == ParseCommand(command)
        c == IF p.cmd = "SET_SPEED" /\ p.params = "" THEN "SET_SPEED:0" ELSE command
    IN  IF variant = "v20" THEN processCommand_v20(g, c, e)
        ELSE IF variant = "v21" THEN processCommand_v21(g, c, e)
        ELSE processCommand_v23(g, c, e)

processCommand(g, command, e) ==
    IF variant = "v20" THEN processCommand_v20(g, command, e)
    ELSE IF variant = "v21" THEN processCommand_v21(g, command, e)
    ELSE processCommand_v23(g, command, e)

\* processSerialCommands() from the bytes waiting up to the return of its next
\* processCommand() call, or to the end of the bytes: the buffer it has then,
\* the bytes left, and whether a line is to be dispatched.
RECURSIVE Drain(_, _)
\* Mutant: the buffer is full one character early.
Drain_oneShort(buf, bytes) ==
    IF bytes = "" THEN [buf |-> buf, rest |-> "", dispatch |-> FALSE]
    ELSE LET inChar == Head(bytes) IN
         IF inChar = "\n" \/ inChar = "\r"
         THEN IF Len(buf) > 0
              THEN [buf |-> buf, rest |-> Tail(bytes), dispatch |-> TRUE]
              ELSE Drain(buf, Tail(bytes))
         ELSE IF Len(buf) < MAX_COMMAND_LENGTH - 1
              THEN Drain(buf \o inChar, Tail(bytes))
              ELSE Drain(buf, Tail(bytes))

Drain(buf, bytes) ==
    IF bytes = "" THEN [buf |-> buf, rest |-> "", dispatch |-> FALSE]
    ELSE LET inChar == Head(bytes) IN
         IF inChar = "\n" \/ inChar = "\r"
         THEN IF Len(buf) > 0
              THEN [buf |-> buf, rest |-> Tail(bytes), dispatch |-> TRUE]
              ELSE Drain(buf, Tail(bytes))
         ELSE IF Len(buf) < MAX_COMMAND_LENGTH
              THEN Drain(buf \o inChar, Tail(bytes))
              ELSE Drain(buf, Tail(bytes))

(***************************************************************************)
(* setup() and the power cycle.                                            *)
(***************************************************************************)
ZeroReadings == [i \in 1..LIGHT_SAMPLES(variant) |-> 0]

\* The pre-fill loop of setup() (v2.1, v2.3); rs are the LIGHT_SAMPLES readings.
prefill(g, rs) ==
    LET n  == LIGHT_SAMPLES(variant)
        g1 == [g EXCEPT !.lightReadings = rs,
                        !.lightTotal = ToInt16(g.lightTotal + SumSeq(rs))]
        g2 == Delay(g1, 10 * n)
    IN  [g2 EXCEPT !.lightAverage = CDiv(g2.lightTotal, n)]

setup_v20(g) ==
    LET g1 == [g EXCEPT !.pin = 0, !.dirPin = 0, !.lightReadings = ZeroReadings]
        g2 == loadCalibration(g1)
        g3 == EmitAll(g2, <<"READY:Arduino Curtain Control v2.0", CalibrationLine(g2)>>)
    IN  Delay(g3, 100)

setup_v21(g, rs) ==
    LET g1 == [g EXCEPT !.pin = 0, !.lightReadings = ZeroReadings]
        g2 == loadCalibration(prefill(g1, rs))
        g3 == EmitAll(g2, <<"READY:Arduino Curtain Control v2.1 (Spinning Motor)",
                            CalibrationLine(g2),
                            "INITIAL_LIGHT:" \o ToString(g2.lightAverage)>>)
    IN  Delay(g3, 100)

setup_v23(g, rs) ==
    LET g1 == [g EXCEPT !.pin = 0, !.lightReadings = ZeroReadings]
        g2 == loadSettings(prefill(g1, rs))
        g3 == EmitAll(g2, <<"READY:Arduino Curtain Control v2.3 (Enhanced Control)",
                            "MODE:" \o ModeName(g2),
                            "OPEN_THRESHOLD:" \o ToString(g2.openThreshold),
                            "CLOSE_THRESHOLD:" \o ToString(g2.closeThreshold),
                            "INITIAL_LIGHT:" \o ToString(g2.lightAverage)>>)
    IN  Delay(g3, 100)

\* The globals as their initialisers leave them and the pins as a reset leaves
\* them; ee is the EEPROM's contents.
PowerOnState(ee) ==
    [now |-> 0, out |-> <<>>, eeprom |-> ee, pin |-> 0, dirPin |-> 0,
     lightReadings |-> ZeroReadings, lightReadIndex |-> 0,
     lightTotal |-> 0, lightAverage |-> 0, currentLightRaw |-> 0,
     lightMin |-> LIGHT_MIN_DEFAULT, lightMax |-> LIGHT_MAX_DEFAULT,
     isCalibrated |-> FALSE,
     motorState |-> "Stopped", curtainPosition |-> "Unknown",
     motorStartTime |-> 0, motorSpeed |-> 255,
     currentMotorSpeed |-> MOTOR_SPEED_STOPPED,
     autoMode |-> TRUE, manualMode |-> FALSE, manualMotorSpeed |-> 0,
     manualStartTime |-> 0, manualOperationActive |-> FALSE,
     manualOpenOperation |-> FALSE,
     openThreshold |-> 300, closeThreshold |-> 700,
     fed |-> <<>>, pctResult |-> 0, divByZero |-> FALSE]

\* The state before setup(), with a blank EEPROM.
PowerOn(ee) ==
    LET g == PowerOnState(ee) IN
    /\ pc = "boot" /\ currentTime = 0 /\ rx = "" /\ commandBuffer = ""
    /\ lastLightRead = 0 /\ lastStatusReport = 0
    /\ now = g.now /\ out = g.out /\ eeprom = g.eeprom
    /\ pin = g.pin /\ dirPin = g.dirPin
    /\ lightReadings = g.lightReadings /\ lightReadIndex = g.lightReadIndex
    /\ lightTotal = g.lightTotal /\ lightAverage = g.lightAverage
    /\ currentLightRaw = g.currentLightRaw
    /\ lightMin = g.lightMin /\ lightMax = g.lightMax
    /\ isCalibrated = g.isCalibrated
    /\ motorState = g.motorState /\ curtainPosition = g.curtainPosition
    /\ motorStartTime = g.motorStartTime /\ motorSpeed = g.motorSpeed
    /\ currentMotorSpeed = g.currentMotorSpeed
    /\ autoMode = g.autoMode /\ manualMode = g.manualMode
    /\ manualMotorSpeed = g.manualMotorSpeed
    /\ manualStartTime = g.manualStartTime
    /\ manualOperationActive = g.manualOperationActive
    /\ manualOpenOperation = g.manualOpenOperation
    /\ openThreshold = g.openThreshold /\ closeThreshold = g.closeThreshold
    /\ fed = g.fed /\ pctResult = g.pctResult /\ divByZero = g.divByZero

\* Power is cut and restored: only the EEPROM keeps its contents.
Reboot ==
    /\ pc # "boot"
    /\ Commit(PowerOnState(eeprom))
    /\ pc' = "boot" /\ currentTime' = 0 /\ rx' = "" /\ commandBuffer' = ""
    /\ lastLightRead' = 0 /\ lastStatusReport' = 0
    /\ UNCHANGED variant

\* setup(); S is the set of values analogRead() may return.
Setup(S) ==
    /\ pc = "boot"
    /\ \E rs \in [1..LIGHT_SAMPLES(variant) -> S] :
          Commit(IF variant = "v20" THEN setup_v20(G)
                 ELSE IF variant = "v21" THEN setup_v21(G, rs)
                 ELSE setup_v23(G, rs))
    /\ pc' = "begin"
    /\ UNCHANGED <<variant, currentTime, rx, commandBuffer, lastLightRead, lastStatusReport>>

(***************************************************************************)
(* loop(), one step per statement of its body.                             *)
(***************************************************************************)
ClockStep == IF variant = "v23" THEN ClockStepManual ELSE ClockStepMotor

Horizon == IF variant = "v23" THEN MaxTimeManual ELSE MaxTime

\* The time that may have passed between two reads of millis().
Advances == {d \in {0, ClockStep} : now + d <= Horizon}

\* unsigned long currentTime = millis();
LoopBegin ==
    /\ pc = "begin"
    /\ \E d \in Advances : now' = now + d /\ currentTime' = now + d
    /\ pc' = "serial"
    /\ out' = <<>>
    /\ UNCHANGED <<variant, rx, eeprom, pin, dirPin, commandBuffer,
                   lightReadings, lightReadIndex, lightTotal, lightAverage,
                   currentLightRaw, lightMin, lightMax, isCalibrated,
                   motorState, curtainPosition, motorStartTime, motorSpeed,
                   currentMotorSpeed, autoMode, manualMode, manualMotorSpeed,
                   manualStartTime, manualOperationActive, manualOpenOperation,
                   openThreshold, closeThreshold, lastLightRead, lastStatusReport,
                   fed, pctResult, divByZero>>

CountLines(bytes) == Cardinality({i \in 1..Len(bytes) : CharAt(bytes, i) = "\n"})

\* The host writes a line; the sketch sees it at its next Serial.available().
HostSend(Lines) ==
    /\ pc = "serial"
    /\ CountLines(rx) < MaxPending
    /\ \E l \in Lines : rx' = rx \o l \o "\n"
    /\ UNCHANGED <<variant, pc, now, currentTime, out, eeprom, pin, dirPin, commandBuffer,
                   lightReadings, lightReadIndex, lightTotal, lightAverage,
                   currentLightRaw, lightMin, lightMax, isCalibrated,
                   motorState, curtainPosition, motorStartTime, motorSpeed,
                   currentMotorSpeed, autoMode, manualMode, manualMotorSpeed,
                   manualStartTime, manualOperationActive, manualOpenOperation,
                   openThreshold, closeThreshold, lastLightRead, lastStatusReport,
                   fed, pctResult, divByZero>>

\* The quotients to consider: one, unless the percentage divides by zero.
Quotients == IF isCalibrated /\ lightMin = lightMax THEN DivZeroQuotients ELSE {0}

\* The time a command's handler blocks.
BlockingTime(command) ==
    LET cmd == ParseCommand(command).cmd IN
    IF variant # "v23" /\ cmd \in {"CALIBRATE_LIGHT", "CALIBRATE"} THEN CALIBRATION_TIME
    ELSE IF variant = "v21" /\ cmd = "TEST_MOTOR" THEN 4000
    ELSE IF variant = "v23" /\ cmd = "TEST_MOTOR" THEN 8000
    ELSE 0

\* The readings a command's handler may take: every sequence over S for a command
\* that reads the sensor, one sequence for the others, which read none.
Readings(command, S) ==
    IF ParseCommand(command).cmd \in {"CALIBRATE_LIGHT", "CALIBRATE", "READ_LIGHT", "GET_STATUS"}
    THEN [1..CalReads -> S]
    ELSE {[i \in 1..CalReads |-> CHOOSE r \in S : TRUE]}

\* processSerialCommands(), up to the return of the next processCommand().
\* Mutant: the buffer is not cleared after the dispatch.
SerialStep_keepsBuffer(S) ==
    /\ pc = "serial"
    /\ rx # ""
    /\ LET r == Drain(commandBuffer, rx) IN
       /\ rx' = r.rest
       /\ IF r.dispatch
          THEN /\ commandBuffer' = r.buf
               /\ now + BlockingTime(r.buf) <= Horizon
               /\ \E d \in Advances, q \in Quotients, rs \in Readings(r.buf, S) :
                     /\ now + d + BlockingTime(r.buf) <= Horizon
                     /\ Commit(processCommand(G, r.buf, [d |-> d, q |-> q, rs |-> rs]))
          ELSE /\ commandBuffer' = r.buf
               /\ Commit(G)
    /\ UNCHANGED <<variant, pc, currentTime, lastLightRead, lastStatusReport>>

SerialStep(S) ==
    /\ pc = "serial"
    /\ rx # ""
    /\ LET r == Drain(commandBuffer, rx) IN
       /\ rx' = r.rest
       /\ IF r.dispatch
          THEN /\ commandBuffer' = ""
               /\ now + BlockingTime(r.buf) <= Horizon
               /\ \E d \in Advances, q \in Quotients, rs \in Readings(r.buf, S) :
                     /\ now + d + BlockingTime(r.buf) <= Horizon
                     /\ Commit(processCommand(G, r.buf, [d |-> d, q |-> q, rs |-> rs]))
          ELSE /\ commandBuffer' = r.buf
               /\ Commit(G)
    /\ UNCHANGED <<variant, pc, currentTime, lastLightRead, lastStatusReport>>

\* The sampling tick of loop().
LightStep(S) ==
    /\ pc = "serial"
    /\ rx = ""
    /\ IF UElapsedGe(currentTime, lastLightRead, LIGHT_READ_INTERVAL(variant))
       THEN /\ \E r \in S, d \in (IF variant = "v23" /\ ~autoMode THEN Advances ELSE {0}) :
                  LET g1 == readLightSensor(G, r) IN
                  Commit(IF variant # "v23" THEN g1
                         ELSE IF g1.autoMode THEN updateMotorFromLight(g1)
                         ELSE updateManualMode(g1, d))
            /\ lastLightRead' = currentTime
       ELSE /\ Commit(G)
            /\ lastLightRead' = lastLightRead
    /\ pc' = "status"
    /\ UNCHANGED <<variant, currentTime, rx, commandBuffer, lastStatusReport>>

\* The periodic status report of loop().
StatusStep(S) ==
    /\ pc = "status"
    /\ IF UElapsedGe(currentTime, lastStatusReport, STATUS_REPORT_INTERVAL)
       THEN /\ \E q \in Quotients, r \in S :
                  Commit(IF variant = "v20" THEN sendStatusReport_v20(G, q)
                         ELSE IF variant = "v21" THEN sendStatusReport_v21(G, q, r)
                         ELSE sendStatusReport_v23(G))
            /\ lastStatusReport' = currentTime
       ELSE /\ Commit(G)
            /\ lastStatusReport' = lastStatusReport
    /\ pc' = IF variant = "v23" THEN "begin" ELSE "timeout"
    /\ UNCHANGED <<variant, currentTime, rx, commandBuffer, lastLightRead>>

stopMotor(g) == IF variant = "v20" THEN stopMotor_v20(g) ELSE stopMotor_v21(g)

\* Mutant: the timeout fires only after more than MOTOR_TIMEOUT.
checkMotorTimeout_late(g) ==
    IF g.motorState # "Stopped" /\ UElapsedGe(currentTime, g.motorStartTime, MOTOR_TIMEOUT + 1)
    THEN Emit(stopMotor(g), "ERROR:MOTOR_TIMEOUT")
    ELSE g

\* The motor timeout check of loop() (v2.0, v2.1).
checkMotorTimeout(g) ==
    IF g.motorState # "Stopped" /\ UElapsedGe(currentTime, g.motorStartTime, MOTOR_TIMEOUT)
    THEN Emit(stopMotor(g), "ERROR:MOTOR_TIMEOUT")
    ELSE g

\* Mutant: loop() waits in the timeout check for as long as the motor moves.
TimeoutStep_halts ==
    /\ pc = "timeout"
    /\ Commit(checkMotorTimeout(G))
    /\ pc' = IF checkMotorTimeout(G).motorState = "Stopped" THEN "begin" ELSE "timeout"
    /\ UNCHANGED <<variant, currentTime, rx, commandBuffer, lastLightRead, lastStatusReport>>

TimeoutStep ==
    /\ pc = "timeout"
    /\ Commit(checkMotorTimeout(G))
    /\ pc' = "begin"
    /\ UNCHANGED <<variant, currentTime, rx, commandBuffer, lastLightRead, lastStatusReport>>

(***************************************************************************)
(* Position-tracking firmwares (v2.0, v2.1): the motor controller under    *)
(* commands and the clock.                                                 *)
(***************************************************************************)
BlankEeprom == [a \in 0..4 |-> 255]

MotorSamples == {512}

MotorLines == {"OPEN_CURTAIN", "CLOSE_CURTAIN", "STOP_MOTOR", "SET_SPEED:50"}

InitMotor ==
    /\ variant \in {"v20", "v21"}
    /\ PowerOn(BlankEeprom)

NextMotor ==
    \/ Setup(MotorSamples)
    \/ LoopBegin
    \/ HostSend(MotorLines)
    \/ SerialStep(MotorSamples)
    \/ LightStep(MotorSamples)
    \/ StatusStep(MotorSamples)
    \/ TimeoutStep
    \/ Reboot

SpecMotor == InitMotor /\ [][NextMotor]_vars

(***************************************************************************)
(* Properties of the motor controller (v2.0, v2.1), under SpecMotor.       *)
(***************************************************************************)
Moving == {"Opening", "Closing"}

LastLine(lines) == IF lines = <<>> THEN "" ELSE lines[Len(lines)]

Emitted(lines, l) == \E i \in 1..Len(lines) : lines[i] = l

\* The step is processSerialCommands() dispatching a line whose command name is
\* in names.
Dispatching(names) ==
    /\ pc = "serial" /\ pc' = "serial" /\ rx # ""
    /\ LET r == Drain(commandBuffer, rx) IN
       r.dispatch /\ rx' = r.rest /\ ParseCommand(r.buf).cmd \in names

\* C1: a direction reversal passes through Stopped: no step takes motorState
\* from Opening to Closing or from Closing to Opening.
C1_NoDirectReversal ==
    [][/\ ~(motorState = "Opening" /\ motorState' = "Closing")
       /\ ~(motorState = "Closing" /\ motorState' = "Opening")]_vars

\* C2: when the loop reaches its timeout check with the motor moving and at least
\* MOTOR_TIMEOUT elapsed since the move's start, the check leaves the motor
\* Stopped with the drive at zero and ERROR:MOTOR_TIMEOUT as its last line, in
\* either direction.
C2_TimeoutForcesStop ==
    [][(/\ pc = "timeout" /\ pc' = "begin"
        /\ motorState \in Moving
        /\ currentTime - motorStartTime >= MOTOR_TIMEOUT)
       => (/\ motorState' = "Stopped"
           /\ pin' = 0
           /\ LastLine(out') = "ERROR:MOTOR_TIMEOUT")]_vars

\* A closing move has just been ended by the timeout.
C2_Witness ==
    /\ pc = "begin"
    /\ LastLine(out) = "ERROR:MOTOR_TIMEOUT"
    /\ Emitted(out, "POSITION:CLOSED")
    /\ motorState = "Stopped" /\ pin = 0
    /\ currentTime - motorStartTime >= MOTOR_TIMEOUT

\* C3: every stop (MOTOR:STOPPED is written) leaves the drive at zero and the
\* position resolved from the state that was left: Open after Opening, Closed
\* after Closing, unchanged after Stopped.
C3_StopResolvesPosition ==
    [][Emitted(out', "MOTOR:STOPPED")
       => (/\ pin' = 0
           /\ motorState' = "Stopped"
           /\ curtainPosition' = IF motorState = "Opening" THEN "Open"
                                 ELSE IF motorState = "Closing" THEN "Closed"
                                 ELSE curtainPosition)]_vars

\* C4: while the motor moves the position is Partial, and the position becomes
\* Open (Closed) only in a step that stops an Opening (Closing) move.
C4_MovingIsPartial ==
    /\ [](motorState \in Moving => curtainPosition = "Partial")
    /\ [][(curtainPosition' = "Open" /\ curtainPosition # "Open")
          => (motorState = "Opening" /\ motorState' = "Stopped")]_vars
    /\ [][(curtainPosition' = "Closed" /\ curtainPosition # "Closed")
          => (motorState = "Closing" /\ motorState' = "Stopped")]_vars

\* A move is under way that was started from a resolved position.
C4_Witness ==
    /\ motorState = "Opening" /\ curtainPosition = "Partial"
    /\ variant = "v21" /\ pin = MOTOR_SPEED_OPENING
    /\ now > motorStartTime

\* C5: OPEN_CURTAIN with the position Open writes only STATUS:Already open and
\* leaves the motor state, the drive, the start time and the position as they
\* are; the same for CLOSE_CURTAIN with the position Closed; no step enters
\* Opening from position Open or Closing from position Closed.
C5_AlreadyThereIsNoOp ==
    [][/\ (Dispatching({"OPEN_CURTAIN", "OPEN"}) /\ curtainPosition = "Open")
          => (/\ out' = <<"STATUS:Already open">>
              /\ UNCHANGED <<motorState, pin, dirPin, motorStartTime, curtainPosition,
                             motorSpeed, currentMotorSpeed>>)
       /\ (Dispatching({"CLOSE_CURTAIN", "CLOSE"}) /\ curtainPosition = "Closed")
          => (/\ out' = <<"STATUS:Already closed">>
              /\ UNCHANGED <<motorState, pin, dirPin, motorStartTime, curtainPosition,
                             motorSpeed, currentMotorSpeed>>)
       /\ (motorState' = "Opening" /\ motorState # "Opening") => curtainPosition # "Open"
       /\ (motorState' = "Closing" /\ motorState # "Closing") => curtainPosition # "Closed"
      ]_vars

\* CLOSE_CURTAIN has just been refused because the curtain is closed.
C5_Witness ==
    /\ out = <<"STATUS:Already closed">>
    /\ curtainPosition = "Closed" /\ motorState = "Stopped" /\ pin = 0

(***************************************************************************)
(* The light filter alone, in the three firmwares: setup() and sampling    *)
(* ticks with readings from both ends of the converter's range.  The tick  *)
(* is taken without the clock, which readLightSensor() does not read.      *)
(***************************************************************************)
FilterSamples == {0, ADC_MAX}

FilterTick(S) ==
    /\ pc = "begin"
    /\ \E r \in S : Commit(readLightSensor(G, r))
    /\ UNCHANGED <<variant, pc, currentTime, rx, commandBuffer, lastLightRead,
                   lastStatusReport>>

InitFilter ==
    /\ variant \in {"v20", "v21", "v23"}
    /\ PowerOn(BlankEeprom)

NextFilter ==
    \/ Setup(FilterSamples)
    \/ FilterTick(FilterSamples)
    \/ Reboot

SpecFilter == InitFilter /\ [][NextFilter]_vars

\* C6: lightTotal is the sum of the LIGHT_SAMPLES entries of lightReadings, after
\* setup() and after every sampling tick.
C6_TotalIsSumOfBuffer ==
    lightTotal = SumSeq([i \in 1..LIGHT_SAMPLES(variant) |-> lightReadings[i]])

\* The ring has been written more than once around and holds both readings.
C6_Witness ==
    /\ pc = "begin"
    /\ Len(fed) = LIGHT_SAMPLES(variant)
    /\ lightReadIndex = 3
    /\ lightTotal = 4 * ADC_MAX

\* C7: from the LIGHT_SAMPLES-th tick on, the running sum is the sum of the last
\* LIGHT_SAMPLES samples fed, the average is that sum divided by LIGHT_SAMPLES
\* with truncation, and the tick's line is LIGHT:<average>.
C7_SumOfLastSamples ==
    (pc = "begin" /\ Len(fed) = LIGHT_SAMPLES(variant))
    => (/\ lightTotal = SumSeq(fed)
        /\ lightAverage * LIGHT_SAMPLES(variant) <= SumSeq(fed)
        /\ SumSeq(fed) < (lightAverage + 1) * LIGHT_SAMPLES(variant)
        /\ out = <<"LIGHT:" \o ToString(lightAverage)>>
        /\ \A k \in 1..Len(fed) :
              fed[k] = lightReadings[((lightReadIndex + k - 1) % LIGHT_SAMPLES(variant)) + 1])

\* A full window whose sum is no multiple of LIGHT_SAMPLES: the division truncates.
C7_Witness ==
    /\ pc = "begin"
    /\ Len(fed) = LIGHT_SAMPLES(variant)
    /\ lightReadIndex = 2
    /\ SumSeq(fed) % LIGHT_SAMPLES(variant) = LIGHT_SAMPLES(variant) - 1

(***************************************************************************)
(* getPercentageLight() alone (v2.0, v2.1), applied to every average and   *)
(* every pair of bounds of a grid over the converter's range.              *)
(***************************************************************************)
PctGrid == {0, 1, 50, 511, 512, 950, 1022, ADC_MAX}

ApplyPercentage ==
    /\ pc = "pct"
    /\ \E q \in Quotients : Commit(getPercentageLight(G, q))
    /\ pc' = "pctDone"
    /\ UNCHANGED <<variant, currentTime, rx, commandBuffer, lastLightRead, lastStatusReport>>

InitPct ==
    /\ variant \in {"v20", "v21"}
    /\ \E avg \in PctGrid, lo \in PctGrid, hi \in PctGrid, cal \in BOOLEAN :
          LET g == [PowerOnState(BlankEeprom) EXCEPT
                       !.lightAverage = avg, !.lightMin = lo, !.lightMax = hi,
                       !.isCalibrated = cal]
          IN
          /\ pc = "pct" /\ currentTime = 0 /\ rx = "" /\ commandBuffer = ""
          /\ lastLightRead = 0 /\ lastStatusReport = 0
          /\ now = g.now /\ out = g.out /\ eeprom = g.eeprom
          /\ pin = g.pin /\ dirPin = g.dirPin
          /\ lightReadings = g.lightReadings /\ lightReadIndex = g.lightReadIndex
          /\ lightTotal = g.lightTotal /\ lightAverage = g.lightAverage
          /\ currentLightRaw = g.currentLightRaw
          /\ lightMin = g.lightMin /\ lightMax = g.lightMax
          /\ isCalibrated = g.isCalibrated
          /\ motorState = g.motorState /\ curtainPosition = g.curtainPosition
          /\ motorStartTime = g.motorStartTime /\ motorSpeed = g.motorSpeed
          /\ currentMotorSpeed = g.currentMotorSpeed
          /\ autoMode = g.autoMode /\ manualMode = g.manualMode
          /\ manualMotorSpeed = g.manualMotorSpeed
          /\ manualStartTime = g.manualStartTime
          /\ manualOperationActive = g.manualOperationActive
          /\ manualOpenOperation = g.manualOpenOperation
          /\ openThreshold = g.openThreshold /\ closeThreshold = g.closeThreshold
          /\ fed = g.fed /\ pctResult = g.pctResult /\ divByZero = g.divByZero

NextPct == ApplyPercentage

SpecPct == InitPct /\ [][NextPct]_vars

\* C8: getPercentageLight() returns a value in [0,100] for every average and
\* every pair of bounds, calibrated or not, and where the bounds are equal it
\* saturates to the nearer end without dividing by zero.
C8_PercentageInRange ==
    pc = "pctDone"
    => (/\ pctResult \in 0..100
        /\ ~divByZero
        /\ (isCalibrated /\ lightMin = lightMax)
              => pctResult = IF lightAverage <= lightMin THEN 0 ELSE 100)

(***************************************************************************)
(* The auto/manual firmware (v2.3) under commands and the clock.           *)
(***************************************************************************)
V23Samples == {200}

V23Lines == {"MANUAL", "AUTO", "OPEN_CURTAIN", "CLOSE_CURTAIN", "SET_SPEED:50",
             "STOP_MOTOR"}

InitV23 ==
    /\ variant = "v23"
    /\ PowerOn(BlankEeprom)

NextV23 ==
    \/ Setup(V23Samples)
    \/ LoopBegin
    \/ HostSend(V23Lines)
    \/ SerialStep(V23Samples)
    \/ LightStep(V23Samples)
    \/ StatusStep(V23Samples)
    \/ Reboot

SpecV23 == InitV23 /\ [][NextV23]_vars

\* The step dispatches SET_SPEED with a parameter.
DispatchingSetSpeed ==
    /\ Dispatching({"SET_SPEED"})
    /\ ParseCommand(Drain(commandBuffer, rx).buf).params # ""

\* C9: OPEN_CURTAIN, CLOSE_CURTAIN and SET_SPEED:<n> outside manual mode write
\* ERROR:NOT_IN_MANUAL_MODE and nothing else, and change neither the drive, the
\* speeds, the timed operation, the mode, the thresholds nor the EEPROM.
C9_ModeGateHasNoEffect ==
    [][((Dispatching({"OPEN_CURTAIN", "CLOSE_CURTAIN"}) \/ DispatchingSetSpeed)
        /\ ~manualMode)
       => (/\ out' = <<"ERROR:NOT_IN_MANUAL_MODE">>
           /\ UNCHANGED <<pin, currentMotorSpeed, manualMotorSpeed,
                          manualOperationActive, manualOpenOperation, manualStartTime,
                          autoMode, manualMode, openThreshold, closeThreshold, eeprom,
                          now, lightReadings, lightReadIndex, lightTotal,
                          lightAverage>>)]_vars

\* A command has just been refused in auto mode while the motor runs.
C9_Witness ==
    /\ out = <<"ERROR:NOT_IN_MANUAL_MODE">>
    /\ autoMode /\ ~manualMode
    /\ pin > 0 /\ currentMotorSpeed = pin

(***************************************************************************)
(* The command interpreter of the three firmwares under known and unknown  *)
(* lines.                                                                  *)
(***************************************************************************)
\* The command names processCommand() compares against.
DispatchTable(v) ==
    IF v = "v20"
    THEN {"OPEN_CURTAIN", "OPEN", "CLOSE_CURTAIN", "CLOSE", "STOP_MOTOR", "STOP",
          "READ_LIGHT", "GET_STATUS", "CALIBRATE_LIGHT", "CALIBRATE",
          "RESET_CALIBRATION", "SET_SPEED", "PING", "VERSION"}
    ELSE IF v = "v21"
    THEN {"OPEN_CURTAIN", "OPEN", "CLOSE_CURTAIN", "CLOSE", "STOP_MOTOR", "STOP",
          "READ_LIGHT", "GET_STATUS", "CALIBRATE_LIGHT", "CALIBRATE",
          "RESET_CALIBRATION", "SET_SPEED", "TEST_MOTOR", "PING", "VERSION"}
    ELSE {"AUTO", "AUTO_MODE", "MANUAL", "MANUAL_MODE", "SET_SPEED", "STOP_MOTOR",
          "STOP", "SET_OPEN_THRESHOLD", "SET_CLOSE_THRESHOLD", "OPEN_CURTAIN",
          "CLOSE_CURTAIN", "READ_LIGHT", "GET_STATUS", "RESET_SETTINGS",
          "TEST_MOTOR", "PING", "VERSION"}

ProtoSamples == {512}

\* A line one character longer than the line buffer holds.
LongLine == "aaaaaaaaaaaaaaaaaaaaaaaaaaaaaaaaaaaaaaaaaaaaaaaaaaaaaaaaaaaaaaaab"

ProtoLines == {"garbage_cmd", "foo:5", ":x", "AUTO", "OPEN_CURTAIN", LongLine}

InitProto ==
    /\ variant \in {"v20", "v21", "v23"}
    /\ PowerOn(BlankEeprom)

NextProto ==
    \/ Setup(ProtoSamples)
    \/ LoopBegin
    \/ HostSend(ProtoLines)
    \/ SerialStep(ProtoSamples)
    \/ LightStep(ProtoSamples)
    \/ StatusStep(ProtoSamples)
    \/ TimeoutStep
    \/ Reboot

SpecProto == InitProto /\ [][NextProto]_vars

\* The step is processSerialCommands() handing a completed line to
\* processCommand().
LineDispatched ==
    /\ pc = "serial" /\ pc' = "serial" /\ rx # ""
    /\ Drain(commandBuffer, rx).dispatch
    /\ rx' = Drain(commandBuffer, rx).rest

\* The line handed over, as the interpreter compares it: trimmed, upper-cased.
DispatchedText == toUpperCase(trim(Drain(commandBuffer, rx).buf))

HasColon(t) == \E i \in 1..Len(t) : CharAt(t, i) = ":"

\* The text before the first colon of t: the longest prefix without a colon.
TextBeforeFirstColon(t) ==
    CHOOSE n \in {SubSeq(t, 1, k) : k \in 0..Len(t)} :
        /\ ~HasColon(n)
        /\ Len(n) = Len(t) \/ CharAt(t, Len(n) + 1) = ":"

\* The text before the first colon, or the whole text when it begins with one.
CommandNameOf(t) ==
    IF t # "" /\ CharAt(t, 1) = ":" THEN t ELSE TextBeforeFirstColon(t)

\* What an unknown command must leave alone.
controllerState ==
    <<motorState, curtainPosition, pin, dirPin, motorSpeed, currentMotorSpeed,
      motorStartTime, autoMode, manualMode, manualMotorSpeed, manualOperationActive,
      manualOpenOperation, manualStartTime, openThreshold, closeThreshold,
      lightMin, lightMax, isCalibrated, lightReadings, lightReadIndex, lightTotal,
      lightAverage, currentLightRaw, eeprom>>

\* C10 as stated: a line whose text before the first colon is not a command of
\* the variant is answered by exactly ERROR:UNKNOWN_COMMAND:<that text>, and no
\* controller state changes.
C10_UnknownEchoesTextBeforeColon ==
    [][(LineDispatched /\ TextBeforeFirstColon(DispatchedText) \notin DispatchTable(variant))
       => (/\ out' = <<"ERROR:UNKNOWN_COMMAND:" \o TextBeforeFirstColon(DispatchedText)>>
           /\ UNCHANGED controllerState)]_vars

\* C10 amended: the name is the text before the first colon, or the whole line
\* when the line begins with a colon; a line whose name is not a command of the
\* variant is answered by exactly ERROR:UNKNOWN_COMMAND:<name>, and no controller
\* state changes.
C10_UnknownEchoesName ==
    [][(LineDispatched /\ CommandNameOf(DispatchedText) \notin DispatchTable(variant))
       => (/\ out' = <<"ERROR:UNKNOWN_COMMAND:" \o CommandNameOf(DispatchedText)>>
           /\ UNCHANGED controllerState)]_vars

\* A line beginning with a colon has just been refused while the motor runs.
C10_Witness ==
    /\ out = <<"ERROR:UNKNOWN_COMMAND::X">>
    /\ pin > 0

(***************************************************************************)
(* The three firmwares under the commands that write, reset and reload the *)
(* persisted record, with reboots.                                         *)
(***************************************************************************)
\* Readings of the calibration window.
StoreCalSamples == {100, ADC_MAX}

\* Readings of setup() and of the sampling tick.
StoreSamples == {512}

StoreLines ==
    IF variant = "v23"
    THEN {"SET_OPEN_THRESHOLD:2000", "SET_CLOSE_THRESHOLD:-5", "SET_CLOSE_THRESHOLD:",
          "SET_SPEED", "RESET_SETTINGS"}
    ELSE {"CALIBRATE_LIGHT", "RESET_CALIBRATION", "SET_SPEED", "SET_SPEED:"}

InitStore ==
    /\ variant \in {"v20", "v21", "v23"}
    /\ PowerOn(BlankEeprom)

NextStore ==
    \/ Setup(StoreSamples)
    \/ LoopBegin
    \/ HostSend(StoreLines)
    \/ SerialStep(StoreCalSamples)
    \/ LightStep(StoreSamples)
    \/ StatusStep(StoreSamples)
    \/ TimeoutStep
    \/ Reboot

SpecStore == InitStore /\ [][NextStore]_vars

\* The commands of the variant that take a parameter.
ParameterCommands ==
    IF variant = "v23" THEN {"SET_SPEED", "SET_OPEN_THRESHOLD", "SET_CLOSE_THRESHOLD"}
    ELSE {"SET_SPEED"}

\* C11: a command that takes a parameter, dispatched with none or with nothing
\* after its colon, writes exactly one ERROR:MISSING_SPEED_PARAMETER or
\* ERROR:MISSING_THRESHOLD_PARAMETER line and changes no controller state and no
\* persisted byte.
C11_MissingParameterIsIgnored ==
    [][(/\ LineDispatched
        /\ ParseCommand(Drain(commandBuffer, rx).buf).cmd \in ParameterCommands
        /\ ParseCommand(Drain(commandBuffer, rx).buf).params = "")
       => (/\ out' = <<IF ParseCommand(Drain(commandBuffer, rx).buf).cmd = "SET_SPEED"
                        THEN "ERROR:MISSING_SPEED_PARAMETER"
                        ELSE "ERROR:MISSING_THRESHOLD_PARAMETER">>
           /\ UNCHANGED controllerState)]_vars

\* A threshold command without its parameter has just been refused, with
\* thresholds in force that are not the defaults.
C11_Witness ==
    /\ out = <<"ERROR:MISSING_THRESHOLD_PARAMETER">>
    /\ openThreshold = ADC_MAX
    /\ eeprom[EEPROM_ADDR_AUTO_MODE] = EEPROM_MAGIC_NUMBER(variant)

\* The 16-bit field stored at address a, low byte first.
StoredField(a) == eeprom[a] + 256 * eeprom[a + 1]

\* The stored magic byte is the one the running firmware expects.
RecordValid == eeprom[EEPROM_ADDR_CALIBRATED] = EEPROM_MAGIC_NUMBER(variant)

\* C12: in v2.3, from blank storage, through any commands and reboots, both
\* thresholds are in [0,1023] in memory and, whenever a record is stored, in the
\* record; SET_OPEN_THRESHOLD:2000 stores and reports 1023.
C12_ThresholdsStayInRange ==
    /\ [](variant = "v23"
          => (/\ openThreshold \in 0..ADC_MAX
              /\ closeThreshold \in 0..ADC_MAX
              /\ RecordValid => (/\ StoredField(EEPROM_ADDR_OPEN_THRESHOLD) \in 0..ADC_MAX
                                 /\ StoredField(EEPROM_ADDR_CLOSE_THRESHOLD) \in 0..ADC_MAX)))
    /\ [][(variant = "v23" /\ LineDispatched /\ DispatchedText = "SET_OPEN_THRESHOLD:2000")
          => (/\ openThreshold' = ADC_MAX
              /\ StoredField(EEPROM_ADDR_OPEN_THRESHOLD)' = ADC_MAX
              /\ RecordValid'
              /\ out' = <<"SETTINGS:SAVED", "OPEN_THRESHOLD:1023">>)]_vars

\* The firmware has booted from a record that holds both clamped thresholds.
C12_Witness ==
    /\ variant = "v23"
    /\ Emitted(out, "SETTINGS:LOADED")
    /\ openThreshold = ADC_MAX /\ closeThreshold = 0
    /\ StoredField(EEPROM_ADDR_OPEN_THRESHOLD) = ADC_MAX
    /\ StoredField(EEPROM_ADDR_CLOSE_THRESHOLD) = 0

\* The step dispatches the reset command of the variant.
ResetDispatched ==
    /\ LineDispatched
    /\ DispatchedText = IF variant = "v23" THEN "RESET_SETTINGS" ELSE "RESET_CALIBRATION"

\* The step is setup().
BootStep == pc = "boot" /\ pc' = "begin"

\* The in-memory values are the hard-coded defaults.
AtDefaults ==
    IF variant = "v23"
    THEN openThreshold = 300 /\ closeThreshold = 700
    ELSE lightMin = LIGHT_MIN_DEFAULT /\ lightMax = LIGHT_MAX_DEFAULT /\ ~isCalibrated

\* C13: the reset command leaves no valid record, a reboot keeps the storage as
\* it is, and setup() from storage without a valid record ends with exactly the
\* hard-coded defaults (300/700; 50, 950, not calibrated), whatever the field
\* bytes hold.
C13_ResetThenRebootGivesDefaults ==
    [][/\ ResetDispatched => ~RecordValid'
       /\ pc' = "boot" => eeprom' = eeprom
       /\ (BootStep /\ ~RecordValid) => AtDefaults'
      ]_vars

\* The firmware has booted to its defaults from storage whose record was reset
\* and whose field bytes still hold saved values.
C13_Witness ==
    /\ pc = "begin"
    /\ eeprom[EEPROM_ADDR_CALIBRATED] = 0
    /\ StoredField(EEPROM_ADDR_MIN_LIGHT) \notin {LIGHT_MIN_DEFAULT, 300, 65535}
    /\ AtDefaults
    /\ \/ Emitted(out, "CALIBRATION:NOT_FOUND")
       \/ Emitted(out, "SETTINGS:NOT_FOUND_USING_DEFAULTS")

IsErrorLine(l) == Len(l) >= 5 /\ SubSeq(l, 1, 5) = "ERROR"

\* setup() from storage without a valid record ends at the defaults and reports
\* the miss with the variant's informational line and with no ERROR line.
BootMissIsInformational ==
    /\ AtDefaults'
    /\ Emitted(out', IF variant = "v23" THEN "SETTINGS:NOT_FOUND_USING_DEFAULTS"
                     ELSE "CALIBRATION:NOT_FOUND")
    /\ \A i \in 1..Len(out') : ~IsErrorLine(out'[i])

\* C14 as stated: a boot without a valid record leaves the defaults, reports the
\* miss informationally, and the banner holds CALIBRATION:NO,MIN:50,MAX:950, in
\* every variant.
C14_BootBannerReportsNoCalibration ==
    [][(BootStep /\ ~RecordValid)
       => (/\ BootMissIsInformational
           /\ Emitted(out', "CALIBRATION:NO,MIN:50,MAX:950"))]_vars

\* C14 amended: a boot without a valid record leaves the defaults and reports the
\* miss informationally; the banner of v2.0 and v2.1 holds
\* CALIBRATION:NO,MIN:50,MAX:950, and the banner of v2.3, which has no
\* calibration, holds OPEN_THRESHOLD:300 and CLOSE_THRESHOLD:700.
C14_BootWithoutRecord ==
    [][(BootStep /\ ~RecordValid)
       => (/\ BootMissIsInformational
           /\ IF variant = "v23"
              THEN /\ Emitted(out', "OPEN_THRESHOLD:300")
                   /\ Emitted(out', "CLOSE_THRESHOLD:700")
                   /\ \A i \in 1..Len(out') :
                         ~(Len(out'[i]) >= 12 /\ SubSeq(out'[i], 1, 12) = "CALIBRATION:")
              ELSE Emitted(out', "CALIBRATION:NO,MIN:50,MAX:950"))]_vars

\* A calibrating firmware has booted from storage whose record was reset after
\* a calibration.
C14_Witness ==
    /\ pc = "begin"
    /\ variant = "v21"
    /\ Emitted(out, "CALIBRATION:NOT_FOUND")
    /\ Emitted(out, "CALIBRATION:NO,MIN:50,MAX:950")
    /\ eeprom[EEPROM_ADDR_CALIBRATED] = 0
    /\ StoredField(EEPROM_ADDR_MAX_LIGHT) = ADC_MAX

(***************************************************************************)
(* The persisted record alone, in the three firmwares: a save of every     *)
(* pair of a grid of field values, reboots, and the load of setup(), from  *)
(* storage that is blank or holds the record of the other firmware family. *)
(***************************************************************************)
RoundTripGrid == {0, 1, 255, 256, 511, ADC_MAX}

RoundTripSamples == {512}

\* Storage last written by the other family of firmware: its magic byte.
ForeignEeprom ==
    [a \in 0..4 |-> IF a = EEPROM_ADDR_CALIBRATED
                    THEN (IF variant = "v23" THEN EEPROM_MAGIC_NUMBER("v21")
                          ELSE EEPROM_MAGIC_NUMBER("v23"))
                    ELSE a + 1]

\* saveCalibration() or saveSettings() with the values in memory.
SaveStep ==
    /\ pc = "save"
    /\ Commit(IF variant = "v23" THEN saveSettings(G) ELSE saveCalibration(G))
    /\ pc' = "saved"
    /\ UNCHANGED <<variant, currentTime, rx, commandBuffer, lastLightRead, lastStatusReport>>

InitRoundTrip ==
    /\ variant \in {"v20", "v21", "v23"}
    /\ \E lo \in RoundTripGrid, hi \in RoundTripGrid, ee \in {BlankEeprom, ForeignEeprom} :
          LET p == PowerOnState(ee)
              g == IF variant = "v23"
                   THEN [p EXCEPT !.openThreshold = lo, !.closeThreshold = hi]
                   ELSE [p EXCEPT !.lightMin = lo, !.lightMax = hi]
          IN
          /\ pc = "save" /\ currentTime = 0 /\ rx = "" /\ commandBuffer = ""
          /\ lastLightRead = 0 /\ lastStatusReport = 0
          /\ now = g.now /\ out = g.out /\ eeprom = g.eeprom
          /\ pin = g.pin /\ dirPin = g.dirPin
          /\ lightReadings = g.lightReadings /\ lightReadIndex = g.lightReadIndex
          /\ lightTotal = g.lightTotal /\ lightAverage = g.lightAverage
          /\ currentLightRaw = g.currentLightRaw
          /\ lightMin = g.lightMin /\ lightMax = g.lightMax
          /\ isCalibrated = g.isCalibrated
          /\ motorState = g.motorState /\ curtainPosition = g.curtainPosition
          /\ motorStartTime = g.motorStartTime /\ motorSpeed = g.motorSpeed
          /\ currentMotorSpeed = g.currentMotorSpeed
          /\ autoMode = g.autoMode /\ manualMode = g.manualMode
          /\ manualMotorSpeed = g.manualMotorSpeed
          /\ manualStartTime = g.manualStartTime
          /\ manualOperationActive = g.manualOperationActive
          /\ manualOpenOperation = g.manualOpenOperation
          /\ openThreshold = g.openThreshold /\ closeThreshold = g.closeThreshold
          /\ fed = g.fed /\ pctResult = g.pctResult /\ divByZero = g.divByZero

NextRoundTrip ==
    \/ SaveStep
    \/ Reboot
    \/ Setup(RoundTripSamples)

SpecRoundTrip == InitRoundTrip /\ [][NextRoundTrip]_vars

\* The pair of values the variant persists, as held in memory.
FieldsInMemory ==
    IF variant = "v23" THEN <<openThreshold, closeThreshold>> ELSE <<lightMin, lightMax>>

\* The pair of fields as stored.
FieldsStored == <<StoredField(EEPROM_ADDR_MIN_LIGHT), StoredField(EEPROM_ADDR_MAX_LIGHT)>>

\* C15: a save stores exactly the pair in memory under a valid magic byte, a
\* reboot keeps the storage, and the load of setup() returns exactly the stored
\* pair and marks it valid when the magic byte is the expected one, and leaves
\* the values in memory untouched when it is not.
C15_SaveLoadRoundTrip ==
    [][/\ (pc = "save" /\ pc' = "saved")
          => (RecordValid' /\ FieldsStored' = FieldsInMemory /\ UNCHANGED FieldsInMemory)
       /\ pc' = "boot" => eeprom' = eeprom
       /\ (BootStep /\ RecordValid)
          => (/\ FieldsInMemory' = FieldsStored
              /\ Emitted(out', IF variant = "v23" THEN "SETTINGS:LOADED"
                               ELSE "CALIBRATION:LOADED")
              /\ variant # "v23" => isCalibrated')
       /\ (BootStep /\ ~RecordValid)
          => (/\ UNCHANGED FieldsInMemory
              /\ variant # "v23" => ~isCalibrated')
      ]_vars

\* A pair with a high byte in one field only, in inverted order, has come back
\* from a save and a reboot.
C15_Witness ==
    /\ pc = "begin"
    /\ Emitted(out, "CALIBRATION:LOADED")
    /\ isCalibrated
    /\ lightMin = 256 /\ lightMax = 255

\* C16: the reset command writes the magic byte only (a zero), leaves the four
\* bytes of the two numeric fields as they were, and puts the defaults in
\* memory within the same command.
C16_ResetWritesMagicByteOnly ==
    [][ResetDispatched =>
         /\ eeprom'[EEPROM_ADDR_CALIBRATED] = 0
         /\ \A a \in 0..3 : eeprom'[a] = eeprom[a]
         /\ AtDefaults'
         /\ Emitted(out', IF variant = "v23" THEN "SETTINGS:RESET" ELSE "CALIBRATION:RESET")
      ]_vars

\* A reset has just run on storage whose field bytes hold a saved pair: the
\* pair is still stored, the magic byte is zero, and memory holds the defaults.
C16_Witness ==
    /\ pc = "serial"
    /\ LastLine(out) \in {"SETTINGS:RESET", "CALIBRATION:RESET"}
    /\ eeprom[EEPROM_ADDR_CALIBRATED] = 0
    /\ StoredField(EEPROM_ADDR_MIN_LIGHT) \in 0..ADC_MAX
    /\ StoredField(EEPROM_ADDR_MAX_LIGHT) \in 0..ADC_MAX
    /\ StoredField(EEPROM_ADDR_MIN_LIGHT) \notin {LIGHT_MIN_DEFAULT, 300}
    /\ AtDefaults

\* C17: in v2.0 and v2.1, at every boundary between two iterations of loop()
\* the calibrated flag is true exactly when the stored magic byte is the
\* expected one, and a valid record stays valid through every step (commands
\* and reboots) other than a RESET_CALIBRATION, whatever the stored bounds.
C17_FlagMatchesStoredRecord ==
    /\ [](variant \in {"v20", "v21"} /\ pc = "begin" => (isCalibrated <=> RecordValid))
    /\ [][(variant \in {"v20", "v21"} /\ RecordValid /\ ~ResetDispatched)
              => RecordValid']_vars

\* The loop starts after a reboot that followed a calibration: the flag is set
\* from the record that the calibration saved.
C17_Witness ==
    /\ variant = "v20"
    /\ pc = "begin"
    /\ isCalibrated /\ RecordValid
    /\ Emitted(out, "CALIBRATION:LOADED")
    /\ StoredField(EEPROM_ADDR_MAX_LIGHT) = ADC_MAX

(***************************************************************************)
(* The calibration alone (v2.0, v2.1): CALIBRATE_LIGHT is processed with   *)
(* every sequence of readings of a grid that reaches both ends of the ADC  *)
(* range.  In this specification fed holds the readings that analogRead    *)
(* returns during the calibration window, oldest first.                    *)
(***************************************************************************)
CalGrid == {0, 5, 10, 512, 1013, 1018, ADC_MAX}

InitCal ==
    /\ variant \in {"v20", "v21"}
    /\ \E rs \in [1..CalReads -> CalGrid] :
          LET g == [PowerOnState(BlankEeprom) EXCEPT !.fed = rs]
          IN
          /\ pc = "cal" /\ currentTime = 0 /\ rx = "" /\ commandBuffer = ""
          /\ lastLightRead = 0 /\ lastStatusReport = 0
          /\ now = g.now /\ out = g.out /\ eeprom = g.eeprom
          /\ pin = g.pin /\ dirPin = g.dirPin
          /\ lightReadings = g.lightReadings /\ lightReadIndex = g.lightReadIndex
          /\ lightTotal = g.lightTotal /\ lightAverage = g.lightAverage
          /\ currentLightRaw = g.currentLightRaw
          /\ lightMin = g.lightMin /\ lightMax = g.lightMax
          /\ isCalibrated = g.isCalibrated
          /\ motorState = g.motorState /\ curtainPosition = g.curtainPosition
          /\ motorStartTime = g.motorStartTime /\ motorSpeed = g.motorSpeed
          /\ currentMotorSpeed = g.currentMotorSpeed
          /\ autoMode = g.autoMode /\ manualMode = g.manualMode
          /\ manualMotorSpeed = g.manualMotorSpeed
          /\ manualStartTime = g.manualStartTime
          /\ manualOperationActive = g.manualOperationActive
          /\ manualOpenOperation = g.manualOpenOperation
          /\ openThreshold = g.openThreshold /\ closeThreshold = g.closeThreshold
          /\ fed = g.fed /\ pctResult = g.pctResult /\ divByZero = g.divByZero

\* processCommand("CALIBRATE_LIGHT") with the readings in fed.
CalibrateStep ==
    /\ pc = "cal"
    /\ Commit(processCommand(G, "CALIBRATE_LIGHT", [d |-> 0, q |-> 0, rs |-> fed]))
    /\ pc' = "calDone"
    /\ UNCHANGED <<variant, currentTime, rx, commandBuffer, lastLightRead, lastStatusReport>>

NextCal == CalibrateStep

SpecCal == InitCal /\ [][NextCal]_vars

\* The smallest and the largest reading of the calibration window.
ObservedMin == CHOOSE x \in {fed[i] : i \in 1..Len(fed)} : \A i \in 1..Len(fed) : x <= fed[i]
ObservedMax == CHOOSE x \in {fed[i] : i \in 1..Len(fed)} : \A i \in 1..Len(fed) : x >= fed[i]

\* C18: after CALIBRATE_LIGHT, whatever readings in 0..1023 the sensor gave,
\* 0 <= lightMin < lightMax <= 1023, lightMin is the smallest reading less 10
\* and lightMax the largest reading plus 10, both clamped to 0..1023, and the
\* two values are the stored fields of a valid record.
C18_CalibrationBounds ==
    pc = "calDone" =>
       /\ 0 <= lightMin /\ lightMin < lightMax /\ lightMax <= ADC_MAX
       /\ lightMin = constrain(ObservedMin - 10, 0, ADC_MAX)
       /\ lightMax = constrain(ObservedMax + 10, 0, ADC_MAX)
       /\ RecordValid /\ isCalibrated
       /\ StoredField(EEPROM_ADDR_MIN_LIGHT) = lightMin
       /\ StoredField(EEPROM_ADDR_MAX_LIGHT) = lightMax

\* A calibration in which every reading was the top of the range has ended:
\* the upper bound is clamped and the bounds still differ.
C18_Witness ==
    /\ pc = "calDone"
    /\ \A i \in 1..Len(fed) : fed[i] = ADC_MAX
    /\ lightMin = 1013 /\ lightMax = ADC_MAX
    /\ RecordValid
    /\ Emitted(out, "CALIBRATION:COMPLETE,MIN:1013,MAX:1023")

(***************************************************************************)
(* Calibration while the motor runs (v2.0, v2.1).  The host sends moves,   *)
(* CALIBRATE_LIGHT, and CALIBRATE_LIGHT with STOP_MOTOR right behind it in *)
(* the same burst.                                                         *)
(***************************************************************************)
CalMotorSamples == {512}

CalMotorLines == {"OPEN_CURTAIN", "CLOSE_CURTAIN", "CALIBRATE_LIGHT",
                  "CALIBRATE_LIGHT\nSTOP_MOTOR"}

InitCalMotor ==
    /\ variant \in {"v20", "v21"}
    /\ PowerOn(BlankEeprom)

NextCalMotor ==
    \/ Setup(CalMotorSamples)
    \/ LoopBegin
    \/ HostSend(CalMotorLines)
    \/ SerialStep(CalMotorSamples)
    \/ LightStep(CalMotorSamples)
    \/ StatusStep(CalMotorSamples)
    \/ TimeoutStep
    \/ Reboot

SpecCalMotor == InitCalMotor /\ [][NextCalMotor]_vars

\* C19: a calibration dispatched while the motor moves blocks for the whole
\* calibration time, leaves the bytes behind its own line in the receive queue,
\* and leaves the motor as it was (state, drive, start time) without reporting
\* a timeout, however long ago the move began; ERROR:MOTOR_TIMEOUT is written
\* by the timeout check of loop() only.
C19_CalibrationSuspendsTimeout ==
    [][/\ (Dispatching({"CALIBRATE_LIGHT", "CALIBRATE"}) /\ motorState \in Moving)
          => (/\ now' >= now + CALIBRATION_TIME
              /\ rx' = Drain(commandBuffer, rx).rest
              /\ motorState' = motorState
              /\ pin' = pin /\ dirPin' = dirPin
              /\ motorStartTime' = motorStartTime
              /\ ~Emitted(out', "ERROR:MOTOR_TIMEOUT"))
       /\ (Emitted(out', "ERROR:MOTOR_TIMEOUT") /\ out' # out) => pc = "timeout"
      ]_vars

\* A calibration has just returned with the motor still opening at nonzero
\* drive, the move being older than MOTOR_TIMEOUT, and the line sent right
\* behind the calibration still in the receive queue.
C19_Witness ==
    /\ pc = "serial"
    /\ Emitted(out, "CALIBRATION:SAVED")
    /\ motorState = "Opening" /\ pin # 0
    /\ now - motorStartTime >= MOTOR_TIMEOUT
    /\ rx = "STOP_MOTOR\n"

\* The step is processSerialCommands() taking bytes from the receive queue.
CommandStep == pc = "serial" /\ rx # "" /\ rx' = Drain(commandBuffer, rx).rest

\* The duration preset for the manual operation under way.
ManualDuration ==
    IF manualOpenOperation THEN MANUAL_OPEN_DURATION ELSE MANUAL_CLOSE_DURATION

\* The step is the sensor tick of loop() in manual mode, and the clock read by
\* updateManualMode() is at least the preset duration past the start.
ManualDurationElapses ==
    /\ pc = "serial" /\ rx = "" /\ pc' = "status"
    /\ UElapsedGe(currentTime, lastLightRead, LIGHT_READ_INTERVAL(variant))
    /\ ~autoMode
    /\ now' - manualStartTime >= ManualDuration

\* C20: in v2.3, while a manual open (close) is under way in manual mode,
\* every step other than the processing of a command or a reboot keeps the
\* drive value and the operation active as long as less than 3000 ms (6000 ms)
\* have passed since the start, and the sensor tick that finds the duration
\* elapsed stops the motor by itself: drive 0, manualOperationActive false.
C20_ManualMoveStopsItself ==
    [][(variant = "v23" /\ ~autoMode /\ manualOperationActive /\ ~CommandStep
            /\ pc' # "boot")
         => IF ManualDurationElapses
            THEN /\ pin' = 0
                 /\ ~manualOperationActive'
                 /\ LastLine(out') = "MANUAL " \o (IF manualOpenOperation THEN "OPEN"
                                                    ELSE "CLOSE") \o " COMPLETED"
            ELSE /\ pin' = pin
                 /\ manualOperationActive'
      ]_vars

\* A manual close has been ended by the controller, 6000 ms or more after its
\* start.
C20_Witness ==
    /\ variant = "v23"
    /\ pc = "status"
    /\ LastLine(out) = "MANUAL CLOSE COMPLETED"
    /\ manualMode /\ ~manualOperationActive /\ pin = 0
    /\ now - manualStartTime >= MANUAL_CLOSE_DURATION

\* The percentage carried by the SET_SPEED line being dispatched, and the PWM
\* value it stands for.
DispatchedPercent == toInt(ParseCommand(Drain(commandBuffer, rx).buf).params)

DispatchedPwm == (constrain(DispatchedPercent, 0, 100) * 255) \div 100

\* C21: in v2.1 a SET_SPEED:p dispatched while the motor is Opening sets the
\* drive to the PWM value of p and while Closing to half of it; dispatched while
\* the motor is Stopped it only writes status lines and leaves drive,
\* currentMotorSpeed, motor state and position as they were; and a move that
\* OPEN_CURTAIN or CLOSE_CURTAIN starts runs at the preset speed (255, 128).
C21_SetSpeedActsOnlyWhileMoving ==
    [][variant = "v21" =>
        /\ (DispatchingSetSpeed /\ motorState = "Opening")
             => (pin' = DispatchedPwm /\ currentMotorSpeed' = DispatchedPwm
                 /\ UNCHANGED <<motorState, curtainPosition, motorStartTime>>)
        /\ (DispatchingSetSpeed /\ motorState = "Closing")
             => (pin' = DispatchedPwm \div 2 /\ currentMotorSpeed' = DispatchedPwm \div 2
                 /\ UNCHANGED <<motorState, curtainPosition, motorStartTime>>)
        /\ (DispatchingSetSpeed /\ motorState = "Stopped")
             => (/\ UNCHANGED <<pin, currentMotorSpeed, motorState, curtainPosition,
                                motorSpeed, motorStartTime, eeprom>>
                 /\ LastLine(out') = "STATUS:Motor stopped - use OPEN/CLOSE first")
        /\ (Dispatching({"OPEN_CURTAIN", "OPEN"}) /\ motorState' = "Opening"
               /\ curtainPosition # "Open")
             => (pin' = MOTOR_SPEED_OPENING /\ currentMotorSpeed' = MOTOR_SPEED_OPENING)
        /\ (Dispatching({"CLOSE_CURTAIN", "CLOSE"}) /\ motorState' = "Closing"
               /\ curtainPosition # "Closed")
             => (pin' = MOTOR_SPEED_CLOSING /\ currentMotorSpeed' = MOTOR_SPEED_CLOSING)
      ]_vars

\* A close under way has just been slowed by SET_SPEED:50 to half of the PWM
\* value 127.
C21_Witness ==
    /\ variant = "v21"
    /\ pc = "serial"
    /\ motorState = "Closing"
    /\ pin = 63 /\ currentMotorSpeed = 63
    /\ out = <<"MOTOR_SPEED_SET:50% (PWM:127)">>

\* The step is the sensor tick of loop() in auto mode (v2.3).
AutoTick ==
    /\ variant = "v23"
    /\ pc = "serial" /\ rx = "" /\ pc' = "status"
    /\ UElapsedGe(currentTime, lastLightRead, LIGHT_READ_INTERVAL(variant))
    /\ autoMode

\* The motor is being driven in an open (a close) operation, as OPEN_CURTAIN
\* (CLOSE_CURTAIN) leaves it in v2.3.
DrivenOpen == manualOperationActive /\ manualOpenOperation /\ pin # 0

DrivenClosed == manualOperationActive /\ ~manualOpenOperation /\ pin # 0

\* C22: in v2.3 every sensor tick in auto mode that finds the smoothed light
\* below the open threshold ends with the curtain driven open, and every one
\* that finds it above the close threshold ends with the curtain driven closed.
C22_AutoTickOpensOrCloses ==
    [][AutoTick =>
         /\ lightAverage' < openThreshold => DrivenOpen'
         /\ lightAverage' > closeThreshold => DrivenClosed'
      ]_vars

(***************************************************************************)
(* The receive path alone, in the three firmwares: the host sends single   *)
(* bytes (a letter, a blank, the two terminators) at any time while        *)
(* processSerialCommands() runs.  No word over the letter is a command.    *)
(***************************************************************************)
StreamBytes == {"A", " ", "\n", "\r"}

StreamSamples == {512}

HostSendByte ==
    /\ pc = "serial"
    /\ Len(commandBuffer) + Len(rx) < MaxStream
    /\ \E c \in StreamBytes : rx' = rx \o c
    /\ UNCHANGED <<variant, pc, now, currentTime, out, eeprom, pin, dirPin, commandBuffer,
                   lightReadings, lightReadIndex, lightTotal, lightAverage,
                   currentLightRaw, lightMin, lightMax, isCalibrated,
                   motorState, curtainPosition, motorStartTime, motorSpeed,
                   currentMotorSpeed, autoMode, manualMode, manualMotorSpeed,
                   manualStartTime, manualOperationActive, manualOpenOperation,
                   openThreshold, closeThreshold, lastLightRead, lastStatusReport,
                   fed, pctResult, divByZero>>

InitStream ==
    /\ variant \in {"v20", "v21", "v23"}
    /\ PowerOn(BlankEeprom)

NextStream ==
    \/ Setup(StreamSamples)
    \/ LoopBegin
    \/ HostSendByte
    \/ SerialStep(StreamSamples)

SpecStream == InitStream /\ [][NextStream]_vars

IsTerminator(c) == c = "\n" \/ c = "\r"

\* The bytes waiting, less the terminators at their head that find the buffer
\* empty.
PendingBytes ==
    LET k == IF commandBuffer # "" THEN 0
             ELSE CHOOSE n \in 0..Len(rx) :
                     /\ \A i \in 1..n : IsTerminator(CharAt(rx, i))
                     /\ n = Len(rx) \/ ~IsTerminator(CharAt(rx, n + 1))
    IN  IF k = Len(rx) THEN "" ELSE SubSeq(rx, k + 1, Len(rx))

LineCompleted == \E i \in 1..Len(PendingBytes) : IsTerminator(CharAt(PendingBytes, i))

FirstTerminator ==
    CHOOSE i \in 1..Len(PendingBytes) :
        /\ IsTerminator(CharAt(PendingBytes, i))
        /\ \A j \in 1..(i - 1) : ~IsTerminator(CharAt(PendingBytes, j))

FirstChars(str, n) == IF Len(str) <= n THEN str ELSE SubSeq(str, 1, n)

\* The line that the first terminator waiting completes, and the bytes behind
\* that terminator.
CompletedLine ==
    FirstChars(commandBuffer \o (IF FirstTerminator = 1 THEN ""
                                 ELSE SubSeq(PendingBytes, 1, FirstTerminator - 1)),
               MAX_COMMAND_LENGTH)

BytesBehindLine ==
    IF FirstTerminator = Len(PendingBytes) THEN ""
    ELSE SubSeq(PendingBytes, FirstTerminator + 1, Len(PendingBytes))

\* The step is processSerialCommands() reading bytes.
ReadsBytes == pc = "serial" /\ Len(rx') < Len(rx)

\* C23: a line of whitespace only, ended by a terminator, is not dispatched:
\* nothing is written and nothing changes.
C23_BlankLineIsNotDispatched ==
    [][(ReadsBytes /\ LineCompleted /\ trim(CompletedLine) = "")
         => (out' = <<>> /\ UNCHANGED controllerState)]_vars

\* C24: reading bytes up to the first terminator that finds the buffer
\* non-empty dispatches exactly the line made of the buffer and the bytes before
\* that terminator, leaves the buffer empty and the bytes behind the terminator
\* waiting; terminators that find the buffer empty are passed over; and bytes
\* without a terminator are added to the buffer with nothing dispatched.
C24_EachLineDispatchedOnce ==
    [][ReadsBytes =>
         IF LineCompleted
         THEN /\ out' = <<"ERROR:UNKNOWN_COMMAND:" \o toUpperCase(trim(CompletedLine))>>
              /\ commandBuffer' = ""
              /\ rx' = BytesBehindLine
         ELSE /\ out' = <<>>
              /\ commandBuffer' = FirstChars(commandBuffer \o PendingBytes, MAX_COMMAND_LENGTH)
              /\ rx' = ""
              /\ UNCHANGED controllerState
      ]_vars

\* The line A has been dispatched at its carriage return; the line feed of the
\* pair and the first byte of the next line are waiting, the buffer is empty.
C24_Witness ==
    /\ pc = "serial"
    /\ out = <<"ERROR:UNKNOWN_COMMAND:A">>
    /\ commandBuffer = ""
    /\ rx = "\nA"

(***************************************************************************)
(* The receive path with lines longer than the buffer: every line the host *)
(* sends starts with PING and 61 blanks, one byte more than the buffer     *)
(* holds, and goes on with letters up to its line feed.                    *)
(***************************************************************************)
Blanks30 == "                              "

\* A line of 65 characters, PING and 61 blanks, in the two parts in which the
\* host sends it.
LongHead == "PING" \o Blanks30
LongTail == Blanks30 \o " "

OverflowBytes == {"x", "y", "\n"}

OverflowSamples == {512}

\* A line has been started and its terminator has not been sent.
LineOpen ==
    LET received == commandBuffer \o rx IN
    received # "" /\ ~IsTerminator(CharAt(received, Len(received)))

\* The host sends the first part of a line when nothing is waiting, the second
\* part when the first has been read, and then single bytes.
HostSendChunk ==
    /\ pc = "serial"
    /\ \/ /\ commandBuffer = "" /\ rx = ""
          /\ rx' = LongHead
       \/ /\ commandBuffer = LongHead /\ rx = ""
          /\ rx' = LongTail
       \/ /\ LineOpen
          /\ Len(commandBuffer) + Len(rx) >= Len(LongHead) + Len(LongTail)
          /\ Len(commandBuffer) + Len(rx) < Len(LongHead) + Len(LongTail) + MaxExcess
          /\ \E c \in OverflowBytes : rx' = rx \o c
    /\ UNCHANGED <<variant, pc, now, currentTime, out, eeprom, pin, dirPin, commandBuffer,
                   lightReadings, lightReadIndex, lightTotal, lightAverage,
                   currentLightRaw, lightMin, lightMax, isCalibrated,
                   motorState, curtainPosition, motorStartTime, motorSpeed,
                   currentMotorSpeed, autoMode, manualMode, manualMotorSpeed,
                   manualStartTime, manualOperationActive, manualOpenOperation,
                   openThreshold, closeThreshold, lastLightRead, lastStatusReport,
                   fed, pctResult, divByZero>>

InitOverflow ==
    /\ variant \in {"v20", "v21", "v23"}
    /\ PowerOn(BlankEeprom)

NextOverflow ==
    \/ Setup(OverflowSamples)
    \/ LoopBegin
    \/ HostSendChunk
    \/ SerialStep(OverflowSamples)

SpecOverflow == InitOverflow /\ [][NextOverflow]_vars

\* The bytes of the line that the first terminator waiting completes, as
\* received, and the number of them.
ReceivedLine ==
    commandBuffer \o (IF FirstTerminator = 1 THEN ""
                      ELSE SubSeq(PendingBytes, 1, FirstTerminator - 1))

\* C25: the command buffer never holds more than MAX_COMMAND_LENGTH characters;
\* bytes read without a terminator are kept up to that length and the rest is
\* dropped with nothing written; and the terminator of a line longer than that
\* dispatches exactly its first MAX_COMMAND_LENGTH characters, the only output
\* being the reply to that text.
C25_BufferHoldsFirst64 ==
    /\ [](Len(commandBuffer) <= MAX_COMMAND_LENGTH)
    /\ [][ReadsBytes =>
            IF LineCompleted
            THEN Len(ReceivedLine) > MAX_COMMAND_LENGTH =>
                   /\ out' = processCommand(G, SubSeq(ReceivedLine, 1, MAX_COMMAND_LENGTH),
                                            [d |-> 0, q |-> 0, rs |-> <<>>]).out
                   /\ commandBuffer' = ""
                   /\ UNCHANGED controllerState
            ELSE /\ out' = <<>>
                 /\ commandBuffer' = FirstChars(commandBuffer \o PendingBytes,
                                                MAX_COMMAND_LENGTH)
                 /\ UNCHANGED controllerState
         ]_vars

\* A line of PING, 61 blanks and letters has been dispatched as PING: its
\* bytes beyond the first 64 were dropped.
C25_Witness ==
    /\ pc = "serial"
    /\ out = <<"PONG">>
    /\ commandBuffer = "" /\ rx = ""

(***************************************************************************)
(* Responsiveness.  The host sends one line at a time, blocking commands   *)
(* included, as long as the clock of the model leaves room for the longest *)
(* handler; no reboot.  loop() runs for ever: each of its steps is taken   *)
(* when it stays enabled (weak fairness).                                  *)
(***************************************************************************)
LiveSamples == {0}

LiveLines ==
    IF variant = "v23" THEN {"TEST_MOTOR", "MANUAL"}
    ELSE {"CALIBRATE_LIGHT", "OPEN_CURTAIN"}

HostSendWhenIdle ==
    /\ pc = "serial"
    /\ rx = "" /\ commandBuffer = ""
    /\ now + CALIBRATION_TIME <= Horizon
    /\ \E l \in LiveLines : rx' = l \o "\n"
    /\ UNCHANGED <<variant, pc, now, currentTime, out, eeprom, pin, dirPin, commandBuffer,
                   lightReadings, lightReadIndex, lightTotal, lightAverage,
                   currentLightRaw, lightMin, lightMax, isCalibrated,
                   motorState, curtainPosition, motorStartTime, motorSpeed,
                   currentMotorSpeed, autoMode, manualMode, manualMotorSpeed,
                   manualStartTime, manualOperationActive, manualOpenOperation,
                   openThreshold, closeThreshold, lastLightRead, lastStatusReport,
                   fed, pctResult, divByZero>>

InitLive ==
    /\ variant \in {"v20", "v21", "v23"}
    /\ PowerOn(BlankEeprom)

NextLive ==
    \/ Setup(LiveSamples)
    \/ LoopBegin
    \/ HostSendWhenIdle
    \/ SerialStep(LiveSamples)
    \/ LightStep(LiveSamples)
    \/ StatusStep(LiveSamples)
    \/ TimeoutStep

\* SerialStep can be taken: a byte is waiting in processSerialCommands() and,
\* where the byte completes a line, the handler's blocking time fits the clock.
SerialStepEnabled ==
    /\ pc = "serial"
    /\ rx # ""
    /\ Drain(commandBuffer, rx).dispatch
          => now + BlockingTime(Drain(commandBuffer, rx).buf) <= Horizon

\* Weak fairness of SerialStep, written out by the definition of WF with the
\* enabling condition stated directly.
SerialStepFair ==
    \/ []<>(~SerialStepEnabled)
    \/ []<><<SerialStep(LiveSamples)>>_vars

\* Weak fairness of StatusStep in the same form: the step can be taken
\* whenever loop() has reached the status report.
StatusStepFair ==
    \/ []<>(pc # "status")
    \/ []<><<StatusStep(LiveSamples)>>_vars

\* loop() runs for ever: every step of it is taken when it stays possible.  The
\* step that leaves the while loop of processSerialCommands() is possible each
\* time the queue is empty, which the host cannot prevent for ever: strong
\* fairness.
SpecLive ==
    /\ InitLive /\ [][NextLive]_vars
    /\ WF_vars(Setup(LiveSamples))
    /\ WF_vars(LoopBegin)
    /\ SerialStepFair
    /\ SF_vars(LightStep(LiveSamples))
    /\ StatusStepFair
    /\ WF_vars(TimeoutStep)

\* C26: there is no halting state: loop() starts a new iteration again and
\* again, every line received is eventually taken from the queue, and a line
\* leaves the queue only by being dispatched, with a reply, the sketch being
\* back in processSerialCommands().
C26_EveryLineIsEventuallyDispatched ==
    /\ []<>(pc = "begin")
    /\ (rx # "") ~> (rx = "")
    /\ [][(rx # "" /\ rx' = "")
            => (Drain(commandBuffer, rx).dispatch /\ pc' = "serial" /\ out' # <<>>)]_vars

\* The blocking motor test of v2.3 has returned to processSerialCommands()
\* after its 8 s, the queue being empty.
C26_Witness ==
    /\ variant = "v23"
    /\ pc = "serial"
    /\ rx = ""
    /\ LastLine(out) = "TEST:Restored to AUTO"
    /\ now >= 8000

(***************************************************************************)
(* The mode of v2.3 under every command that assigns it.                   *)
(***************************************************************************)
ModeLines == {"MANUAL", "AUTO", "MANUAL_MODE", "AUTO_MODE", "RESET_SETTINGS", "TEST_MOTOR",
              "OPEN_CURTAIN"}

NextMode ==
    \/ Setup(V23Samples)
    \/ LoopBegin
    \/ HostSend(ModeLines)
    \/ SerialStep(V23Samples)
    \/ LightStep(V23Samples)
    \/ StatusStep(V23Samples)
    \/ Reboot

SpecMode == InitV23 /\ [][NextMode]_vars

\* C27 (v2.3): every step of the running sketch that changes the device mode
\* writes the line MODE:AUTO or MODE:MANUAL that carries the new mode.
C27_ModeChangeIsAnnounced ==
    [][(variant = "v23" /\ pc' # "boot" /\ autoMode' # autoMode)
          => Emitted(out', IF autoMode' THEN "MODE:AUTO" ELSE "MODE:MANUAL")]_vars

\* C28 (v2.0, v2.1): OPEN_CURTAIN dispatched with the motor Stopped and the
\* curtain not Open writes MOTOR:OPENING then POSITION:PARTIAL, and the timeout
\* check that ends an opening move writes MOTOR:STOPPED, POSITION:OPEN,
\* ERROR:MOTOR_TIMEOUT in that order and leaves the motor Stopped, the curtain
\* Open.
C28_OpenAndTimeoutEvents ==
    [][/\ (Dispatching({"OPEN_CURTAIN"}) /\ motorState = "Stopped"
               /\ curtainPosition # "Open")
          => out' = <<"MOTOR:OPENING", "POSITION:PARTIAL">>
       /\ (pc = "timeout" /\ pc' = "begin" /\ motorState = "Opening"
               /\ Emitted(out', "ERROR:MOTOR_TIMEOUT"))
          => /\ out' = <<"MOTOR:STOPPED", "POSITION:OPEN", "ERROR:MOTOR_TIMEOUT">>
             /\ motorState' = "Stopped"
             /\ curtainPosition' = "Open"]_vars

C30_TimeoutOnlyAfterRealElapse ==
    [][(pc = "timeout" /\ pc' = "begin" /\ Emitted(out', "ERROR:MOTOR_TIMEOUT"))
          => now - motorStartTime >= MOTOR_TIMEOUT]_vars

\* C31 (v2.0, v2.1): the timeout is measured from the moment the motor left
\* Stopped: no step that finds the motor moving and leaves it moving, a repeated
\* OPEN_CURTAIN or CLOSE_CURTAIN included, moves motorStartTime, so that the
\* timeout check stops the motor MOTOR_TIMEOUT after it first left Stopped.
C31_RunIsTimedFromItsStart ==
    [][(motorState \in Moving /\ motorState' \in Moving /\ pc' # "boot")
          => motorStartTime' = motorStartTime]_vars

\* C32 (v2.3): whenever loop() starts an iteration in manual mode with the
\* motor driven (currentMotorSpeed > 0), a timed manual operation is under way.
C32_ManualDriveIsTimed ==
    (variant = "v23" /\ pc = "begin" /\ manualMode /\ currentMotorSpeed > 0)
       => manualOperationActive

\* C33: the dispatch of STOP_MOTOR leaves the drive at zero, and the sensor
\* tick of loop() that follows it, no command having arrived, leaves the drive
\* at zero too.
C33_StopStaysStopped ==
    [][/\ Dispatching({"STOP_MOTOR", "STOP"}) => pin' = 0
       /\ (out = <<"MOTOR:STOPPED">> /\ pin = 0 /\ pc = "serial" /\ pc' = "status")
          => pin' = 0
      ]_vars

(***************************************************************************)
(* Numeric parameters: the commands that take a number, with values at and *)
(* beyond the ends of their ranges and of the 16-bit int of the target,    *)
(* and the commands that drive the motor pin directly (v2.0, v2.1).        *)
(***************************************************************************)
ParamLines ==
    IF variant = "v23"
    THEN {"MANUAL", "SET_OPEN_THRESHOLD:-7", "SET_OPEN_THRESHOLD:512",
          "SET_CLOSE_THRESHOLD:40000", "SET_SPEED:50", "SET_SPEED:300", "SET_SPEED:65586"}
    ELSE {"OPEN_CURTAIN", "CLOSE_CURTAIN", "TEST_MOTOR", "SET_SPEED:0", "SET_SPEED:50"}

\* The host sends one line when nothing is waiting, during the first seconds.
HostSendParam ==
    /\ pc = "serial"
    /\ rx = "" /\ commandBuffer = ""
    /\ now <= MaxParamTime
    /\ \E l \in ParamLines : rx' = l \o "\n"
    /\ UNCHANGED <<variant, pc, now, currentTime, out, eeprom, pin, dirPin, commandBuffer,
                   lightReadings, lightReadIndex, lightTotal, lightAverage,
                   currentLightRaw, lightMin, lightMax, isCalibrated,
                   motorState, curtainPosition, motorStartTime, motorSpeed,
                   currentMotorSpeed, autoMode, manualMode, manualMotorSpeed,
                   manualStartTime, manualOperationActive, manualOpenOperation,
                   openThreshold, closeThreshold, lastLightRead, lastStatusReport,
                   fed, pctResult, divByZero>>

NextParam ==
    \/ Setup(StoreSamples)
    \/ LoopBegin
    \/ HostSendParam
    \/ SerialStep(StoreSamples)
    \/ LightStep(StoreSamples)
    \/ StatusStep(StoreSamples)
    \/ TimeoutStep

SpecParam == InitStore /\ [][NextParam]_vars

\* The decimal integer written in the parameter of the line being dispatched.
DispatchedNumber == toInt(ParseCommand(Drain(commandBuffer, rx).buf).params)

\* C34 (v2.3): SET_OPEN_THRESHOLD:<n> and SET_CLOSE_THRESHOLD:<n> leave the
\* threshold at n clamped to [0,1023], in memory and in storage, for every
\* decimal integer n, and are answered with the new value, never with an error.
C34_ThresholdIsClampedParameter ==
    [][/\ (variant = "v23" /\ Dispatching({"SET_OPEN_THRESHOLD"}))
          => /\ openThreshold' = constrain(DispatchedNumber, 0, 1023)
             /\ StoredField(EEPROM_ADDR_OPEN_THRESHOLD)' = openThreshold'
             /\ LastLine(out') = "OPEN_THRESHOLD:" \o ToString(openThreshold')
       /\ (variant = "v23" /\ Dispatching({"SET_CLOSE_THRESHOLD"}))
          => /\ closeThreshold' = constrain(DispatchedNumber, 0, 1023)
             /\ StoredField(EEPROM_ADDR_CLOSE_THRESHOLD)' = closeThreshold'
             /\ LastLine(out') = "CLOSE_THRESHOLD:" \o ToString(closeThreshold')
      ]_vars

\* The drive value that SET_SPEED:<p> is to apply in v2.3.
SpeedForPercent(p) ==
    IF p <= 100 THEN constrain((p * 255) \div 100, 0, 255)
    ELSE IF p < 255 THEN p ELSE 255

\* C36: the drive value is always within [0,255], and in v2.3 in manual mode
\* SET_SPEED:<p> applies map(p,0,100,0,255) clamped to [0,255] when p <= 100
\* and min(p,255) when p > 100, for every decimal integer p.
C36_SpeedIsClampedParameter ==
    /\ [](pin \in 0..255)
    /\ [][(variant = "v23" /\ manualMode /\ Dispatching({"SET_SPEED"}))
            => pin' = SpeedForPercent(DispatchedNumber)]_vars

\* C35 (v2.3): the dispatch of AUTO, AUTO_MODE, MANUAL or MANUAL_MODE, also
\* of the one that names the mode already active, sets the mode named, leaves
\* the drive, currentMotorSpeed and manualMotorSpeed at 0 and no manual
\* operation active, leaves manualMode the negation of autoMode, and leaves a
\* valid record that holds the thresholds in memory.
C35_ModeSwitchStopsMotor ==
    [][(variant = "v23" /\ Dispatching({"AUTO", "AUTO_MODE", "MANUAL", "MANUAL_MODE"}))
          => /\ autoMode' = (ParseCommand(Drain(commandBuffer, rx).buf).cmd
                                \in {"AUTO", "AUTO_MODE"})
             /\ manualMode' = ~autoMode'
             /\ pin' = 0 /\ currentMotorSpeed' = 0 /\ manualMotorSpeed' = 0
             /\ ~manualOperationActive'
             /\ RecordValid'
             /\ FieldsStored' = <<openThreshold', closeThreshold'>>
             /\ UNCHANGED <<openThreshold, closeThreshold>>
      ]_vars

\* MANUAL_MODE has been dispatched in manual mode less than 3000 ms after a
\* manual open was started: the motor has been stopped.
C35_Witness ==
    /\ variant = "v23"
    /\ pc = "serial"
    /\ out = <<"MOTOR:STOPPED", "SETTINGS:SAVED", "MODE:MANUAL", "MANUAL_MODE:TRUE">>
    /\ manualStartTime > 0 /\ manualOpenOperation
    /\ now - manualStartTime < MANUAL_OPEN_DURATION
    /\ pin = 0 /\ ~manualOperationActive

\* C37 (v2.1): whenever loop() starts an iteration, the value last written to
\* the motor pin is currentMotorSpeed, and it is 0 exactly when the motor is
\* Stopped or the speed in force is 0.
C37_PinMatchesTrackedState ==
    (variant = "v21" /\ pc = "begin")
       => /\ pin = currentMotorSpeed
          /\ (pin = 0) <=> (motorState = "Stopped" \/ currentMotorSpeed = 0)

saveInterrupted(g, k) ==
    LET lo == IF variant = "v23" THEN g.openThreshold ELSE g.lightMin
        hi == IF variant = "v23" THEN g.closeThreshold ELSE g.lightMax
        g1 == EEPROM_write(g, EEPROM_ADDR_CALIBRATED, EEPROM_MAGIC_NUMBER(variant))
        g2 == IF k >= 2 THEN EEPROM_write(g1, EEPROM_ADDR_MIN_LIGHT, lowByte(lo)) ELSE g1
        g3 == IF k >= 3 THEN EEPROM_write(g2, EEPROM_ADDR_MIN_LIGHT + 1, highByte(lo)) ELSE g2
        g4 == IF k >= 4 THEN EEPROM_write(g3, EEPROM_ADDR_MAX_LIGHT, lowByte(hi)) ELSE g3
    IN  IF k >= 5 THEN EEPROM_write(g4, EEPROM_ADDR_MAX_LIGHT + 1, highByte(hi)) ELSE g4

\* Power is lost inside the save, after at least one and before the last of
\* its writes; the board is then off until Setup runs again.
SavePowerLoss ==
    /\ pc = "save"
    /\ \E k \in 1..4 : Commit(PowerOnState(saveInterrupted(G, k).eeprom))
    /\ pc' = "boot" /\ currentTime' = 0 /\ rx' = "" /\ commandBuffer' = ""
    /\ lastLightRead' = 0 /\ lastStatusReport' = 0
    /\ UNCHANGED variant

NextPowerLoss ==
    \/ SaveStep
    \/ SavePowerLoss
    \/ Reboot
    \/ Setup(RoundTripSamples)

SpecPowerLoss == InitRoundTrip /\ [][NextPowerLoss]_vars

\* C39: a save cut short before its last data byte leaves no record that the
\* load accepts as valid; and the boot that follows a save cut short on blank
\* storage (the last field byte still blank) reports that nothing was found
\* and runs with the defaults.
C39_InterruptedSaveIsNotValid ==
    [][/\ (pc = "save" /\ pc' = "boot") => ~RecordValid'
       /\ (BootStep /\ eeprom[EEPROM_ADDR_MAX_LIGHT + 1] = 255)
          => (/\ AtDefaults'
              /\ Emitted(out', IF variant = "v23" THEN "SETTINGS:NOT_FOUND_USING_DEFAULTS"
                               ELSE "CALIBRATION:NOT_FOUND"))
      ]_vars

====
